---- MODULE Spec2Model ----
(***************************************************************************)
(* A model of the space-planning editor: the document store of the App     *)
(* component (rooms, connections, selection, floor, tool mode), the        *)
(* per-space interaction controller of the Bubble component (whole-shape   *)
(* drag, edge-handle resize, outline editing) and the export entry points. *)
(*                                                                         *)
(* World coordinates are pixels and are kept as integers: the pointer      *)
(* positions, room sizes and zoom factors the model draws its inputs from  *)
(* are chosen so that every division the code performs is exact (Exact has *)
(* no value otherwise).  The zoom factor is kept in thousandths, the unit  *)
(* of the wheel sensitivity (0.001 per wheel unit).  Areas are kept in     *)
(* hundredths of a square metre, the precision of toFixed(2).              *)
(***************************************************************************)
EXTENDS Integers, Sequences, FiniteSets, TLC

VARIABLES
    appVersion,          \* which of the two App components of App.tsx is running
    projectName,         \* App: projectName
    rooms,               \* App: rooms (list of Room)
    connections,         \* App: connections (list of Connection)
    selectedRoomIds,     \* App: selectedRoomIds
    currentFloor,        \* App: currentFloor
    scale,               \* App: scale, in thousandths
    offset,              \* App: offset, the screen position of the world origin
    snapEnabled,         \* App: snapEnabled
    snapStep,            \* App: snapStep, in tenths of a metre
    toolMode,            \* App: toolMode
    connectingSourceId,  \* App: connectingSourceId / connectionSourceId
    isDragging,          \* Bubble: isDragging, per mounted Bubble
    resizeHandle,        \* Bubble: resizeHandle
    draggingVertexIndex, \* Bubble: draggingVertexIndex
    draggingEdgeIndex,   \* Bubble: draggingEdgeIndex
    isEditingOutline,    \* Bubble: isEditingOutline
    activeSnapLines,     \* Bubble: activeSnapLines
    startDragState,      \* Bubble: startDragState.current
    mouse,               \* the pointer: clientX, clientY, button state, click count
    call,                \* the last call of a utility function: name, arguments, result
    exportLog,           \* what the last export call did: a file or a notice
    hist                 \* history of the gesture in progress (observation only)

appVars    == <<appVersion, projectName, rooms, connections, selectedRoomIds, currentFloor, scale, offset,
                snapEnabled, snapStep, toolMode, connectingSourceId>>
bubbleVars == <<isDragging, resizeHandle, draggingVertexIndex, draggingEdgeIndex,
                isEditingOutline, activeSnapLines, startDragState>>
vars       == <<appVars, bubbleVars, mouse, exportLog, call, hist>>

---------------------------------------------------------------------------
(* Program constants *)

PIXELS_PER_METER == 20
minSize == 20
SnapThresholdPx == 10
ScaleUnit == 1000
MinScale == 100
MaxScale == 5000

(* Bounds of the model *)

MaxGestures == 1
MaxPresses == 2
MaxWheels == 2
MaxSnapVal == 60
MaxTicks == 4

RoomIds == {"A", "B", "C"}
NoId == "null"
None == <<>>
Some(v) == <<v>>
Floors == {0, 1}

---------------------------------------------------------------------------
(* Arithmetic of the source *)

Abs(v) == IF v < 0 THEN 0 - v ELSE v
Max2(a, b) == IF a >= b THEN a ELSE b
Min2(a, b) == IF a <= b THEN a ELSE b

\* a / b of the source where the quotient is an integer
Exact(a, b) == CHOOSE q \in {a \div b} : q * b = a

\* Math.round(a / b) for b > 0: the nearest integer, halves rounded up
RoundDiv(a, b) == (2 * a + b) \div (2 * b)

\* a JavaScript number that is a ratio of two integers, in lowest terms
RECURSIVE Gcd(_, _)
Gcd(a, b) == IF b = 0 THEN a ELSE Gcd(b, a % b)
Frac(n, d) ==
    LET g == Gcd(Abs(n), Abs(d))
        sgn == IF d < 0 THEN -1 ELSE 1
    IN  [n |-> sgn * (n \div g), d |-> sgn * (d \div g)]

\* Math.sqrt on the perfect squares the model enters as areas
\* the number a missing or non-numeric value turns into (NaN)
NotANumber == 0 - 1

Sqrt(n) == CHOOSE k \in 0..n : k * k = n

SeqMax(s) == CHOOSE m \in {s[i] : i \in DOMAIN s} : \A i \in DOMAIN s : s[i] <= m
SeqMin(s) == CHOOSE m \in {s[i] : i \in DOMAIN s} : \A i \in DOMAIN s : s[i] >= m

---------------------------------------------------------------------------
(* The document store *)

Pt(px, py) == [x |-> px, y |-> py]

HasRoom(rs, id) == \E i \in DOMAIN rs : rs[i].id = id
IndexOf(rs, id) == CHOOSE i \in DOMAIN rs : rs[i].id = id /\ \A j \in DOMAIN rs : rs[j].id = id => i <= j
RoomOf(rs, id) == rs[IndexOf(rs, id)]
IdsOf(rs) == {rs[i].id : i \in DOMAIN rs}

\* { ...r, ...updates }
Merge(r, updates) == [f \in DOMAIN r |-> IF f \in DOMAIN updates THEN updates[f] ELSE r[f]]

MapRoom(prev, id, updates) ==
    [i \in DOMAIN prev |-> IF prev[i].id = id THEN Merge(prev[i], updates) ELSE prev[i]]

\* the group branch of updateRoom: every selected room is translated by the
\* primary's delta and keeps all its other fields
GroupMoveMutant(prev, sel, id, updates, dx, dy) ==
    [i \in DOMAIN prev |->
        IF prev[i].id \in sel
        THEN [prev[i] EXCEPT
                !.x = IF "x" \in DOMAIN updates THEN updates.x ELSE @,
                !.y = IF "y" \in DOMAIN updates THEN updates.y ELSE @]
        ELSE prev[i]]

GroupMove(prev, sel, id, updates, dx, dy) ==
    [i \in DOMAIN prev |->
        IF prev[i].id \in sel
        THEN [prev[i] EXCEPT
                !.x = IF prev[i].id = id /\ "x" \in DOMAIN updates THEN updates.x ELSE @ + dx,
                !.y = IF prev[i].id = id /\ "y" \in DOMAIN updates THEN updates.y ELSE @ + dy]
        ELSE prev[i]]

\* updateRoom of the first App: a position update of a selected room moves
\* the whole selection
updateRoom(prev, sel, id, updates) ==
    IF id \in sel /\ ("x" \in DOMAIN updates \/ "y" \in DOMAIN updates)
    THEN IF ~HasRoom(prev, id) THEN prev
         ELSE LET targetRoom == RoomOf(prev, id)
                  dx == IF "x" \in DOMAIN updates THEN updates.x - targetRoom.x ELSE 0
                  dy == IF "y" \in DOMAIN updates THEN updates.y - targetRoom.y ELSE 0
              IN  IF dx = 0 /\ dy = 0
                  THEN MapRoom(prev, id, updates)
                  ELSE GroupMove(prev, sel, id, updates, dx, dy)
    ELSE MapRoom(prev, id, updates)

handleSelectRoom(prev, id, multi) ==
    IF multi
    THEN IF id \in prev THEN prev \ {id} ELSE prev \cup {id}
    ELSE IF id \in prev THEN prev ELSE {id}

roomsOnCurrentFloor(rs, floor) ==
    SelectSeq(rs, LAMBDA r : r.isPlaced /\ r.floor = floor)

otherRooms(rs, floor, id) ==
    SelectSeq(roomsOnCurrentFloor(rs, floor), LAMBDA r : r.id # id)

Rendered(rs, floor, id) ==
    \E i \in DOMAIN rs : rs[i].id = id /\ rs[i].isPlaced /\ rs[i].floor = floor

isConnecting == toolMode = "connect" \/ connectingSourceId # NoId

---------------------------------------------------------------------------
(* The Bubble component: helpers *)

RectPoints(w, h) == <<Pt(0, 0), Pt(w, 0), Pt(w, h), Pt(0, h)>>

\* room.polygon absent is the empty sequence
ensurePolygon(room) ==
    IF Len(room.polygon) > 0 THEN room.polygon ELSE RectPoints(room.width, room.height)

activePoints(room) ==
    IF Len(room.polygon) > 0 THEN room.polygon ELSE RectPoints(room.width, room.height)

\* snapStep * pixelsPerUnit, metric units
snapPixelUnit == Exact(snapStep * PIXELS_PER_METER, 10)

\* the grid index taken for the coordinate: the multiplication by the
\* grid step is left out
snapMutant(val) ==
    IF ~snapEnabled THEN val
    ELSE RoundDiv(val, snapPixelUnit)

snap(val) ==
    IF ~snapEnabled THEN val
    ELSE RoundDiv(val, snapPixelUnit) * snapPixelUnit

\* 10 / zoomScale
threshold == Exact(SnapThresholdPx * ScaleUnit, scale)

\* Number(v.toFixed(2)) of n / d square metres, in hundredths
AreaFixed(n, d) == IF n >= 0 THEN RoundDiv(100 * n, d) ELSE 0 - RoundDiv(100 * (0 - n), d)

PPM2 == PIXELS_PER_METER * PIXELS_PER_METER

\* the shoelace sum of calculatePolygonArea, before Math.abs and the division
RECURSIVE ShoelaceSum(_, _)
ShoelaceSum(points, i) ==
    IF i > Len(points) THEN 0
    ELSE LET j == (i % Len(points)) + 1
         IN  points[i].x * points[j].y - points[j].x * points[i].y + ShoelaceSum(points, i + 1)

\* Number(calculatePolygonArea(points, pixelsPerMeter).toFixed(2)), in hundredths
calculatePolygonArea(points) == AreaFixed(Abs(ShoelaceSum(points, 1)), 2 * PPM2)

\* Math.sqrt(newArea) * PIXELS_PER_METER, for an area in hundredths of a
\* square metre whose side is a whole number of pixels
SideOf(area) ==
    IF area = NotANumber THEN NotANumber ELSE Exact(Sqrt(area) * PIXELS_PER_METER, 10)

\* areas typed into an Area field, in hundredths of a square metre
AreaInputs == {100}

InitialStart == [startX |-> 0, startY |-> 0, roomX |-> 0, roomY |-> 0,
                 roomW |-> 0, roomH |-> 0, initialPoints |-> <<>>]
NoLines == [x |-> None, y |-> None]

\* the registration with a truthiness test of the two indices, under which
\* index 0 registers no listener
ActiveMutant(id) ==
    \/ isDragging[id]
    \/ resizeHandle[id] # "null"
    \/ (draggingVertexIndex[id] # None /\ draggingVertexIndex[id] # Some(0))
    \/ (draggingEdgeIndex[id] # None /\ draggingEdgeIndex[id] # Some(0))

\* the condition under which the effect registers the window listeners
Active(id) ==
    \/ isDragging[id]
    \/ resizeHandle[id] # "null"
    \/ draggingVertexIndex[id] # None
    \/ draggingEdgeIndex[id] # None

dxWorldOf(s, m) == Exact((m.x - s.startX) * ScaleUnit, scale)
dyWorldOf(s, m) == Exact((m.y - s.startY) * ScaleUnit, scale)

---------------------------------------------------------------------------
(* handleMouseMove, isDragging branch *)

\* targetXs / targetYs: left, centre and right of every other room, in order
TargetsOf(others, pos, size) ==
    [k \in 1..(3 * Len(others)) |->
        LET r == others[((k - 1) \div 3) + 1]
            part == (k - 1) % 3
        IN  IF part = 0 THEN r[pos]
            ELSE IF part = 1 THEN r[pos] + Exact(r[size], 2)
            ELSE r[pos] + r[size]]

\* the (mine, target) pairs in the order of the two nested loops
SnapPairs(raw, w, targets) ==
    [k \in 1..(3 * Len(targets)) |->
        LET i == (k - 1) \div Len(targets)
            off == IF i = 0 THEN 0 ELSE IF i = 1 THEN Exact(w, 2) ELSE w
        IN  [my |-> raw + off, off |-> off, target |-> targets[((k - 1) % Len(targets)) + 1]]]

RECURSIVE SnapScan(_, _, _, _)
SnapScan(pairs, k, minD, snapped) ==
    IF k > Len(pairs) THEN snapped
    ELSE LET diff == Abs(pairs[k].my - pairs[k].target)
         IN  IF diff < minD
             THEN SnapScan(pairs, k + 1, diff, Some(pairs[k].target - pairs[k].off))
             ELSE SnapScan(pairs, k + 1, minD, snapped)

ObjectSnap(raw, w, targets) == SnapScan(SnapPairs(raw, w, targets), 1, threshold, None)

\* the left, centre and right (top, middle, bottom) of a span
Parts(start, len) == {start, start + Exact(len, 2), start + len}

\* the coordinates the other rooms offer on one axis
Coords(others, pos, size) ==
    UNION {Parts(others[k][pos], others[k][size]) : k \in DOMAIN others}

\* some left / centre / right of the dragged span is closer than the
\* threshold to one of the offered coordinates
WithinThreshold(raw, w, coords) ==
    \E mine \in Parts(raw, w), t \in coords : Abs(mine - t) < threshold

\* rawX = startDragState.current.roomX + dxWorld
DragRawMutant(startPos, currentPos, dWorld) == currentPos + dWorld

DragRaw(startPos, currentPos, dWorld) == startPos + dWorld

\* what the isDragging branch computes for the Bubble of room: the update it
\* sends to updateRoom and the snap lines it sets
DragMove(room, others, m) ==
    LET s == startDragState[room.id]
        rawX == DragRaw(s.roomX, room.x, dxWorldOf(s, m))
        rawY == DragRaw(s.roomY, room.y, dyWorldOf(s, m))
        snappedX == ObjectSnap(rawX, s.roomW, TargetsOf(others, "x", "width"))
        snappedY == ObjectSnap(rawY, s.roomH, TargetsOf(others, "y", "height"))
        newX == IF snappedX # None THEN snappedX[1] ELSE IF snapEnabled THEN snap(rawX) ELSE rawX
        newY == IF snappedY # None THEN snappedY[1] ELSE IF snapEnabled THEN snap(rawY) ELSE rawY
    IN  [updates |-> [x |-> newX, y |-> newY],
         lines   |-> [x |-> snappedX, y |-> snappedY]]

---------------------------------------------------------------------------
(* handleMouseMove, resizeHandle branch *)

\* the clamp of the e and s handles: Math.max(minSize, start + d)
ClampSize(startSize, dWorld) == Max2(minSize, startSize + dWorld)

\* e / s: [pos, size] after the move
ResizeTrailing(startPos, startSize, dWorld) ==
    LET clamped == ClampSize(startSize, dWorld)
    IN  [pos |-> startPos, size |-> IF snapEnabled THEN snap(clamped) ELSE clamped]

\* w / n: [pos, size] after the move
ResizeLeading(startPos, startSize, dWorld) ==
    LET proposed == startSize - dWorld
    IN  IF proposed >= minSize
        THEN IF snapEnabled
             THEN LET snappedPos == snap(startPos + dWorld)
                      diff == snappedPos - (startPos + dWorld)
                  IN  [pos |-> snappedPos, size |-> snap(proposed - diff)]
             ELSE [pos |-> startPos + dWorld, size |-> proposed]
        ELSE [pos |-> startPos, size |-> startSize]

ResizeMove(room, m) ==
    LET s == startDragState[room.id]
        handle == resizeHandle[room.id]
        keepX == [pos |-> s.roomX, size |-> s.roomW]
        keepY == [pos |-> s.roomY, size |-> s.roomH]
        horiz == IF handle = "e" THEN ResizeTrailing(s.roomX, s.roomW, dxWorldOf(s, m))
                 ELSE IF handle = "w" THEN ResizeLeading(s.roomX, s.roomW, dxWorldOf(s, m))
                 ELSE keepX
        vert  == IF handle = "s" THEN ResizeTrailing(s.roomY, s.roomH, dyWorldOf(s, m))
                 ELSE IF handle = "n" THEN ResizeLeading(s.roomY, s.roomH, dyWorldOf(s, m))
                 ELSE keepY
    IN  [updates |-> [x |-> horiz.pos, y |-> vert.pos, width |-> horiz.size,
                      height |-> vert.size, area |-> AreaFixed(horiz.size * vert.size, PPM2)],
         lines   |-> activeSnapLines[room.id]]

---------------------------------------------------------------------------
(* handleMouseMove, draggingVertexIndex and draggingEdgeIndex branches *)

\* getSnapTargets: the other vertices of the gesture-start polygon, then the
\* left and right (top and bottom) of every other room and its vertices
RECURSIVE OtherTargets(_, _, _, _)
OtherTargets(others, k, pos, size) ==
    IF k > Len(others) THEN <<>>
    ELSE LET r == others[k]
         IN  <<r[pos], r[pos] + r[size]>>
             \o [i \in 1..Len(r.polygon) |-> r[pos] + r.polygon[i][pos]]
             \o OtherTargets(others, k + 1, pos, size)

RECURSIVE OwnTargets(_, _, _, _, _)
OwnTargets(points, i, ignore, base, pos) ==
    IF i > Len(points) THEN <<>>
    ELSE (IF i - 1 = ignore THEN <<>> ELSE <<points[i][pos] + base>>)
         \o OwnTargets(points, i + 1, ignore, base, pos)

getSnapTargets(room, others, ignore, pos, size) ==
    OwnTargets(startDragState[room.id].initialPoints, 1, ignore, room[pos], pos)
    \o OtherTargets(others, 1, pos, size)

\* calculateSmartSnap: the first target within the threshold wins
RECURSIVE calculateSmartSnap(_, _, _, _)
calculateSmartSnap(val, targets, k, currentRoomBase) ==
    IF k > Len(targets) THEN [val |-> val, guide |-> None]
    ELSE IF Abs(currentRoomBase + val - targets[k]) < threshold
         THEN [val |-> targets[k] - currentRoomBase, guide |-> Some(targets[k])]
         ELSE calculateSmartSnap(val, targets, k + 1, currentRoomBase)

Xs(points) == [i \in DOMAIN points |-> points[i].x]
Ys(points) == [i \in DOMAIN points |-> points[i].y]

\* width: Math.max(room.width, Math.max(...xs))
GrowExtent(current, coords) == Max2(current, SeqMax(coords))

PolygonUpdate(room, newPoints) ==
    [polygon |-> newPoints,
     area    |-> calculatePolygonArea(newPoints),
     width   |-> GrowExtent(room.width, Xs(newPoints)),
     height  |-> GrowExtent(room.height, Ys(newPoints))]

VertexCoord(room, others, idx, start, dWorld, pos, size) ==
    LET n == start + dWorld
        sn == calculateSmartSnap(n, getSnapTargets(room, others, idx, pos, size), 1, room[pos])
    IN  IF sn.guide # None THEN sn.val
        ELSE IF snapEnabled
             THEN RoundDiv(room[pos] + n, snapPixelUnit) * snapPixelUnit - room[pos]
             ELSE n

VertexMove(room, others, m) ==
    LET s == startDragState[room.id]
        idx == draggingVertexIndex[room.id][1]
        point == s.initialPoints[idx + 1]
        nx == VertexCoord(room, others, idx, point.x, dxWorldOf(s, m), "x", "width")
        ny == VertexCoord(room, others, idx, point.y, dyWorldOf(s, m), "y", "height")
        newPoints == [s.initialPoints EXCEPT ![idx + 1] = Pt(nx, ny)]
    IN  [updates |-> PolygonUpdate(room, newPoints), lines |-> activeSnapLines[room.id]]

EdgeMove(room, m) ==
    LET s == startDragState[room.id]
        i1 == draggingEdgeIndex[room.id][1]
        i2 == (i1 + 1) % Len(s.initialPoints)
        dxW == dxWorldOf(s, m)
        dyW == dyWorldOf(s, m)
        dx0 == IF Abs(dxW) > Abs(dyW) THEN dxW ELSE 0
        dy0 == IF Abs(dxW) > Abs(dyW) THEN 0 ELSE dyW
        dx == IF snapEnabled THEN snap(dx0) ELSE dx0
        dy == IF snapEnabled THEN snap(dy0) ELSE dy0
        moved1 == [s.initialPoints EXCEPT ![i1 + 1] = Pt(@.x + dx, @.y + dy)]
        newPoints == [moved1 EXCEPT ![i2 + 1] = Pt(@.x + dx, @.y + dy)]
    IN  [updates |-> PolygonUpdate(room, newPoints), lines |-> activeSnapLines[room.id]]

\* handleMouseMove of the Bubble of room: the branch taken, in the order of
\* the source
BubbleMove(room, others, m) ==
    IF resizeHandle[room.id] # "null" THEN ResizeMove(room, m)
    ELSE IF draggingVertexIndex[room.id] # None THEN VertexMove(room, others, m)
    ELSE IF draggingEdgeIndex[room.id] # None THEN EdgeMove(room, m)
    ELSE DragMove(room, others, m)

---------------------------------------------------------------------------
(* handleConnect of the first App, toggleLink of the second *)

SamePair(c, a, b) ==
    \/ (c.fromId = a /\ c.toId = b)
    \/ (c.fromId = b /\ c.toId = a)

\* connections.some(...) of handleConnect, connections.find(...) of toggleLink
ExistsMutant(conns, a, b) == \E i \in DOMAIN conns : conns[i].fromId = a /\ conns[i].toId = b

Exists(conns, a, b) == \E i \in DOMAIN conns : SamePair(conns[i], a, b)

\* the state handleConnect(targetId) leaves
handleConnect(targetId) ==
    IF connectingSourceId = targetId
    THEN [connections |-> connections, source |-> NoId, toolMode |-> "select"]
    ELSE IF connectingSourceId # NoId
         THEN [connections |-> IF Exists(connections, connectingSourceId, targetId)
                               THEN connections
                               ELSE Append(connections,
                                           [fromId |-> connectingSourceId, toId |-> targetId]),
               source |-> NoId, toolMode |-> "select"]
         ELSE [connections |-> connections, source |-> targetId, toolMode |-> "connect"]

\* the state toggleLink(roomId) leaves; the second App has no tool mode
toggleLink(roomId) ==
    IF connectingSourceId = roomId
    THEN [connections |-> connections, source |-> NoId, toolMode |-> toolMode]
    ELSE IF connectingSourceId # NoId
         THEN [connections |-> IF Exists(connections, connectingSourceId, roomId)
                               THEN connections
                               ELSE Append(connections,
                                           [fromId |-> connectingSourceId, toId |-> roomId]),
               source |-> NoId, toolMode |-> toolMode]
         ELSE [connections |-> connections, source |-> roomId, toolMode |-> toolMode]

\* what a connect click on id amounts to: the start of a gesture, its
\* cancellation, a new connection or a pair that is connected already
ConnectKind(id) ==
    IF connectingSourceId = NoId THEN "source"
    ELSE IF connectingSourceId = id THEN "cancel"
    ELSE IF \E i \in DOMAIN connections :
                {connections[i].fromId, connections[i].toId} = {connectingSourceId, id}
         THEN "duplicate"
         ELSE "connected"

---------------------------------------------------------------------------
(* Pointer events on a Bubble *)

HistInit == [kind |-> "none", id |-> NoId, gestures |-> 0, downX |-> 0, downY |-> 0,
             startRooms |-> <<>>, moves |-> 0, curX |-> 0, curY |-> 0,
             nearX |-> FALSE, nearY |-> FALSE, targetsX |-> {}, targetsY |-> {},
             released |-> FALSE, outlineAtClick |-> FALSE, dbl |-> FALSE,
             deleted |-> {}, wheels |-> 0, ai |-> "none", ctrl |-> FALSE, tick |-> "none",
             ticks |-> 0]

Down(kind, id) ==
    [HistInit EXCEPT !.kind = kind, !.id = id, !.gestures = hist.gestures + 1,
                     !.downX = mouse.x, !.downY = mouse.y, !.startRooms = rooms,
                     !.curX = mouse.x, !.curY = mouse.y,
                     !.outlineAtClick = hist.outlineAtClick]

StartAt(room, points) ==
    [startX |-> mouse.x, startY |-> mouse.y, roomX |-> room.x, roomY |-> room.y,
     roomW |-> room.width, roomH |-> room.height, initialPoints |-> points]

StartPoly(points) ==
    [startX |-> mouse.x, startY |-> mouse.y, roomX |-> 0, roomY |-> 0,
     roomW |-> 0, roomH |-> 0, initialPoints |-> points]

\* toggleEditMode of the Bubble of id
toggleEditMode(id) ==
    IF ~isEditingOutline[id]
    THEN /\ rooms' = updateRoom(rooms, selectedRoomIds, id,
                                [polygon |-> ensurePolygon(RoomOf(rooms, id))])
         /\ isEditingOutline' = [isEditingOutline EXCEPT ![id] = TRUE]
    ELSE /\ rooms' = rooms
         /\ isEditingOutline' = [isEditingOutline EXCEPT ![id] = FALSE]

\* handleMouseDown of the Bubble of id, for a mouse-down (detail 1 or 2) or a
\* dblclick event (detail 2) on its root element
handleMouseDown(id, detail, multi) ==
    IF isConnecting /\ connectingSourceId # id
    THEN /\ connections' = handleConnect(id).connections
         /\ connectingSourceId' = handleConnect(id).source
         /\ toolMode' = handleConnect(id).toolMode
         /\ UNCHANGED <<rooms, selectedRoomIds, bubbleVars>>
    ELSE IF detail = 2
    THEN /\ toggleEditMode(id)
         /\ UNCHANGED <<connections, connectingSourceId, toolMode, selectedRoomIds,
                        isDragging, resizeHandle, draggingVertexIndex, draggingEdgeIndex,
                        activeSnapLines, startDragState>>
    ELSE /\ selectedRoomIds' = handleSelectRoom(selectedRoomIds, id, multi)
         /\ isDragging' = [isDragging EXCEPT ![id] = TRUE]
         /\ startDragState' = [startDragState EXCEPT ![id] = StartAt(RoomOf(rooms, id), <<>>)]
         /\ UNCHANGED <<rooms, connections, connectingSourceId, toolMode, resizeHandle,
                        draggingVertexIndex, draggingEdgeIndex, isEditingOutline,
                        activeSnapLines>>

\* a press of the left button on the root element of a Bubble; the browser
\* gives the second press of a double-click the click count 2
RootMouseDown(id, detail, multi) ==
    /\ appVersion = 1
    /\ ~mouse.down
    /\ Rendered(rooms, currentFloor, id)
    /\ detail = 2 => (mouse.clicks = 1 /\ mouse.target = id /\ mouse.part = "root")
    /\ handleMouseDown(id, detail, multi)
    /\ mouse' = [mouse EXCEPT !.down = TRUE, !.clicks = detail, !.target = id,
                              !.part = "root"]
    /\ hist' = IF isConnecting /\ connectingSourceId # id THEN Down(ConnectKind(id), id)
               ELSE IF detail = 2
               THEN [Down("toggle", id) EXCEPT !.outlineAtClick = hist.outlineAtClick]
               ELSE [Down("drag", id) EXCEPT !.outlineAtClick = isEditingOutline[id]]
    /\ UNCHANGED <<appVersion, projectName, currentFloor, scale, offset, snapEnabled, snapStep, exportLog, call>>

\* the dblclick event the browser sends after the second release; the root
\* element handles it with handleMouseDown
RootDoubleClick(id) ==
    /\ appVersion = 1
    /\ ~mouse.down
    /\ mouse.clicks = 2
    /\ mouse.target = id
    /\ mouse.part = "root"
    /\ Rendered(rooms, currentFloor, id)
    /\ handleMouseDown(id, 2, FALSE)
    /\ mouse' = [mouse EXCEPT !.clicks = 0]
    /\ hist' = [hist EXCEPT !.dbl = TRUE]
    /\ UNCHANGED <<appVersion, projectName, currentFloor, scale, offset, snapEnabled, snapStep, exportLog, call>>

\* handleResizeStart: a press on one of the four edge handles, which are
\* rendered for a selected rectangle that is not being dragged
handleResizeStart(id, handle) ==
    /\ appVersion = 1
    /\ ~mouse.down
    /\ Rendered(rooms, currentFloor, id)
    /\ Len(RoomOf(rooms, id).polygon) = 0
    /\ id \in selectedRoomIds
    /\ ~isDragging[id]
    /\ resizeHandle' = [resizeHandle EXCEPT ![id] = handle]
    /\ startDragState' = [startDragState EXCEPT ![id] = StartAt(RoomOf(rooms, id), <<>>)]
    /\ mouse' = [mouse EXCEPT !.down = TRUE, !.clicks = 0, !.target = id]
    /\ hist' = Down("resize", id)
    /\ UNCHANGED <<appVars, isDragging, draggingVertexIndex, draggingEdgeIndex,
                   isEditingOutline, activeSnapLines, exportLog, call>>

\* the vertex and edge handles of the editing overlay exist while the Bubble
\* is in outline mode
OverlayShown(id) ==
    /\ appVersion = 1
    /\ ~mouse.down
    /\ Rendered(rooms, currentFloor, id)
    /\ isEditingOutline[id]

\* handleVertexMouseDown: a press on the handle of vertex index
handleVertexMouseDown(id, index) ==
    /\ OverlayShown(id)
    /\ index < Len(activePoints(RoomOf(rooms, id)))
    /\ draggingVertexIndex' = [draggingVertexIndex EXCEPT ![id] = Some(index)]
    /\ startDragState' = [startDragState EXCEPT
                             ![id] = StartPoly(ensurePolygon(RoomOf(rooms, id)))]
    /\ mouse' = [mouse EXCEPT !.down = TRUE, !.clicks = 0, !.target = id]
    /\ hist' = Down("vertex", id)
    /\ UNCHANGED <<appVars, isDragging, resizeHandle, draggingEdgeIndex, isEditingOutline,
                   activeSnapLines, exportLog, call>>

\* the two copies spliced in before the first endpoint of the edge:
\* poly.splice(index, 0, {...p1}, {...p2})
SpliceEdgeMutant(poly, index) ==
    LET p1 == poly[index + 1]
        p2 == poly[((index + 1) % Len(poly)) + 1]
    IN  SubSeq(poly, 1, index) \o <<p1, p2>> \o SubSeq(poly, index + 1, Len(poly))

\* poly.splice(index + 1, 0, {...p1}, {...p2})
SpliceEdge(poly, index) ==
    LET p1 == poly[index + 1]
        p2 == poly[((index + 1) % Len(poly)) + 1]
    IN  SubSeq(poly, 1, index + 1) \o <<p1, p2>> \o SubSeq(poly, index + 2, Len(poly))

\* handleEdgeMouseDown: a press on edge index; with Ctrl held the edge is
\* duplicated first and the copy is the one dragged
handleEdgeMouseDown(id, index, ctrl) ==
    /\ OverlayShown(id)
    /\ index < Len(activePoints(RoomOf(rooms, id)))
    /\ LET poly == IF ctrl THEN SpliceEdge(ensurePolygon(RoomOf(rooms, id)), index)
                   ELSE ensurePolygon(RoomOf(rooms, id))
           activeIndex == IF ctrl THEN index + 1 ELSE index
       IN  /\ rooms' = IF ctrl
                       THEN updateRoom(rooms, selectedRoomIds, id, [polygon |-> poly])
                       ELSE rooms
           /\ draggingEdgeIndex' = [draggingEdgeIndex EXCEPT ![id] = Some(activeIndex)]
           /\ startDragState' = [startDragState EXCEPT ![id] = StartPoly(poly)]
    /\ mouse' = [mouse EXCEPT
                    !.down = TRUE, !.target = id, !.part = "edge", !.index = index,
                    !.clicks = IF ctrl THEN 0
                               ELSE IF /\ mouse.clicks = 1 /\ mouse.target = id
                                       /\ mouse.part = "edge" /\ mouse.index = index
                                    THEN 2 ELSE 1]
    /\ hist' = [Down("edge", id) EXCEPT !.ctrl = ctrl]
    /\ UNCHANGED <<appVersion, projectName, connections, selectedRoomIds, currentFloor, scale, offset,
                   snapEnabled, snapStep, toolMode, connectingSourceId, isDragging,
                   resizeHandle, draggingVertexIndex, isEditingOutline, activeSnapLines,
                   exportLog, call>>

\* one corner of createRoundedPath at vertex i (from 0): the fillet starts
\* at p1 + (v1 / l1) * r and ends at p1 + (v2 / l2) * r with
\* r = min(radius, l1 / 2, l2 / 2). The lengths are square roots, so the
\* corner is kept as the squares: (r / l)^2 is a ratio of integers, and is
\* 0 / 0, not a number, when l = 0
roundedCorner(points, i, radius) ==
    LET len == Len(points)
        p0 == points[((i - 1 + len) % len) + 1]
        p1 == points[i + 1]
        p2 == points[((i + 1) % len) + 1]
        v1 == Pt(p0.x - p1.x, p0.y - p1.y)
        v2 == Pt(p2.x - p1.x, p2.y - p1.y)
        l1sq == v1.x * v1.x + v1.y * v1.y
        l2sq == v2.x * v2.x + v2.y * v2.y
        r4sq == Min2(4 * radius * radius, Min2(l1sq, l2sq))
    IN  [p1 |-> p1, v1 |-> v1, v2 |-> v2, r4sq |-> r4sq,
         startRatioSq |-> IF l1sq = 0 THEN [n |-> 0, d |-> 0] ELSE Frac(r4sq, 4 * l1sq),
         endRatioSq |-> IF l2sq = 0 THEN [n |-> 0, d |-> 0] ELSE Frac(r4sq, 4 * l2sq)]

\* createRoundedPath: the corners of the path, none for fewer than 3 points
createRoundedPath(points, radius) ==
    IF Len(points) < 3 THEN <<>>
    ELSE [k \in 1..Len(points) |-> roundedCorner(points, k - 1, radius)]

\* polygonPath of the Bubble
polygonPath(room) == createRoundedPath(activePoints(room), 8)

\* the Modify Outline / Finish Editing Outline button of the tools menu
ToolsModifyOutline(id) ==
    /\ appVersion = 1
    /\ ~mouse.down
    /\ Rendered(rooms, currentFloor, id)
    /\ toggleEditMode(id)
    /\ mouse' = [mouse EXCEPT !.clicks = 0]
    /\ hist' = [HistInit EXCEPT !.gestures = hist.gestures]
    /\ UNCHANGED <<appVersion, projectName, connections, selectedRoomIds, currentFloor, scale, offset,
                   snapEnabled, snapStep, toolMode, connectingSourceId, isDragging,
                   resizeHandle, draggingVertexIndex, draggingEdgeIndex, activeSnapLines,
                   startDragState, exportLog, call>>

\* the Area field of the properties panel, shown for a single selection
PropertiesAreaEdit(newArea) ==
    /\ appVersion = 1
    /\ ~mouse.down
    /\ Cardinality(selectedRoomIds) = 1
    /\ \E id \in selectedRoomIds :
          /\ HasRoom(rooms, id)
          /\ RoomOf(rooms, id).area # newArea
          /\ rooms' = updateRoom(rooms, selectedRoomIds, id,
                                 [area |-> newArea, width |-> SideOf(newArea),
                                  height |-> SideOf(newArea)])
    /\ mouse' = [mouse EXCEPT !.clicks = 0]
    /\ hist' = [HistInit EXCEPT !.gestures = hist.gestures]
    /\ UNCHANGED <<appVersion, projectName, connections, selectedRoomIds, currentFloor, scale, offset,
                   snapEnabled, snapStep, toolMode, connectingSourceId, bubbleVars, exportLog, call>>

\* the rooms after the mouse-move handlers of all active Bubbles have run:
\* each handler has computed its update from the props of the last render
\* (moves) and hands it to updateRoom
RECURSIVE ApplyMoves(_, _, _)
ApplyMoves(acc, k, moves) ==
    IF k > Len(rooms) THEN acc
    ELSE IF Active(rooms[k].id)
         THEN ApplyMoves(updateRoom(acc, selectedRoomIds, rooms[k].id,
                                    moves[rooms[k].id].updates),
                         k + 1, moves)
         ELSE ApplyMoves(acc, k + 1, moves)

\* a mousemove event at client position (px, py), delivered to the window
\* listeners that the active Bubbles have registered
MouseMove(px, py) ==
    /\ appVersion = 1
    /\ \E id \in RoomIds : Active(id)
    /\ <<px, py>> # <<mouse.x, mouse.y>>
    /\ LET m == [x |-> px, y |-> py]
           moves == [id \in {i \in RoomIds : Active(i) /\ HasRoom(rooms, i)} |->
                        BubbleMove(RoomOf(rooms, id),
                                   otherRooms(rooms, currentFloor, id), m)]
       IN  /\ rooms' = ApplyMoves(rooms, 1, moves)
           /\ activeSnapLines' =
                [id \in RoomIds |->
                    IF id \in DOMAIN moves THEN moves[id].lines ELSE activeSnapLines[id]]
           /\ hist' = IF hist.kind # "none" /\ ~hist.released /\ hist.id \in DOMAIN moves
                      THEN LET s == startDragState[hist.id]
                               others == otherRooms(rooms, currentFloor, hist.id)
                           IN  [hist EXCEPT
                                  !.moves = Min2(@ + 1, 2), !.curX = px, !.curY = py,
                                  !.targetsX = Coords(others, "x", "width"),
                                  !.targetsY = Coords(others, "y", "height"),
                                  !.nearX = WithinThreshold(s.roomX + dxWorldOf(s, m), s.roomW,
                                                            Coords(others, "x", "width")),
                                  !.nearY = WithinThreshold(s.roomY + dyWorldOf(s, m), s.roomH,
                                                            Coords(others, "y", "height"))]
                      ELSE hist
    /\ mouse' = [mouse EXCEPT !.x = px, !.y = py, !.clicks = 0]
    /\ UNCHANGED <<appVersion, projectName, connections, selectedRoomIds, currentFloor, scale, offset,
                   snapEnabled, snapStep, toolMode, connectingSourceId, isDragging,
                   resizeHandle, draggingVertexIndex, draggingEdgeIndex, isEditingOutline,
                   startDragState, exportLog, call>>

\* the release of the button: handleMouseUp of every Bubble that has its
\* window listeners registered
MouseUp ==
    /\ mouse.down
    /\ isDragging' = [id \in RoomIds |-> IF Active(id) THEN FALSE ELSE isDragging[id]]
    /\ resizeHandle' = [id \in RoomIds |-> IF Active(id) THEN "null" ELSE resizeHandle[id]]
    /\ draggingVertexIndex' =
          [id \in RoomIds |-> IF Active(id) THEN None ELSE draggingVertexIndex[id]]
    /\ draggingEdgeIndex' =
          [id \in RoomIds |-> IF Active(id) THEN None ELSE draggingEdgeIndex[id]]
    /\ activeSnapLines' = [id \in RoomIds |-> IF Active(id) THEN NoLines ELSE activeSnapLines[id]]
    /\ mouse' = [mouse EXCEPT !.down = FALSE]
    /\ hist' = [hist EXCEPT !.released = TRUE]
    /\ UNCHANGED <<appVars, isEditingOutline, startDragState, exportLog, call>>

---------------------------------------------------------------------------
(* Toolbar, wheel and keyboard of the first App *)

\* the Snap to Grid button
ToggleSnap ==
    /\ appVersion = 1
    /\ ~mouse.down
    /\ snapEnabled' = ~snapEnabled
    /\ UNCHANGED <<appVersion, projectName, rooms, connections, selectedRoomIds, currentFloor, scale, offset,
                   snapStep, toolMode, connectingSourceId, bubbleVars, mouse, exportLog, call, hist>>

\* the grid menu: the metric steps 0.5, 1, 2 and 5 m, in tenths of a metre
gridOptions == {5, 10, 20, 50}

SetSnapStep(m) ==
    /\ appVersion = 1
    /\ ~mouse.down
    /\ m # snapStep
    /\ snapStep' = m
    /\ UNCHANGED <<appVersion, projectName, rooms, connections, selectedRoomIds, currentFloor, scale, offset,
                   snapEnabled, toolMode, connectingSourceId, bubbleVars, mouse, exportLog, call, hist>>

\* the zoom factors at which the pointer positions of the model divide exactly
ExactScales == {ScaleUnit, 2 * ScaleUnit}
WheelDeltas == {0 - ScaleUnit, ScaleUnit}

\* the new scale without the clamp
newScaleMutant(deltaY) == scale - deltaY

\* newScale of handleWheel: scale - deltaY * 0.001, clamped to [0.1, 5]
newScale(deltaY) == Min2(Max2(MinScale, scale - deltaY), MaxScale)

\* the bounding rectangle of the main element: it lies under the header
\* (h-14 / h-16) and to the right of the catalog (w-64 / w-80)
rect == IF appVersion = 1 THEN [left |-> 256, top |-> 56] ELSE [left |-> 320, top |-> 64]

\* the world coordinate shown at the client coordinate c of one axis, for
\* the offset o of that axis and the scale sc: screenToWorld of the first
\* App, and the conversion handleDrop of the second App performs
screenToWorldAt(c, edge, o, sc) ==
    Frac(((c - edge) * o.d - o.n) * ScaleUnit, o.d * sc)

\* the pointer position handleWheel anchors the zoom at: relative to the
\* main element in the first App, to the window in the second
WheelMouse(c, edge) == IF appVersion = 1 THEN c - edge ELSE c

\* newOffsetX of handleWheel: mouseX - worldX * newScale, with
\* worldX = (mouseX - offset.x) / scale
newOffset(m, o, sc) ==
    LET world == Frac((m * o.d - o.n) * ScaleUnit, o.d * scale)
    IN  Frac(m * world.d * ScaleUnit - world.n * sc, world.d * ScaleUnit)

\* handleWheel for a wheel event of deltaY at the client position (cx, cy),
\* turned while no button is held
Wheel(deltaY, cx, cy) ==
    /\ ~mouse.down
    /\ scale' = newScale(deltaY)
    /\ offset' = [x |-> newOffset(WheelMouse(cx, rect.left), offset.x, newScale(deltaY)),
                  y |-> newOffset(WheelMouse(cy, rect.top), offset.y, newScale(deltaY))]
    /\ mouse' = [mouse EXCEPT !.x = cx, !.y = cy, !.clicks = 0]
    /\ hist' = [HistInit EXCEPT !.gestures = hist.gestures, !.wheels = Min2(hist.wheels + 1, MaxWheels)]
    /\ UNCHANGED <<appVersion, projectName, rooms, connections, selectedRoomIds, currentFloor,
                   snapEnabled, snapStep, toolMode, connectingSourceId, bubbleVars,
                   exportLog, call>>

\* handleMouseMove of the main element during a pan (middle button, or
\* Shift and the left button): the offset follows the pointer by (dx, dy)
Pan(dx, dy) ==
    /\ ~mouse.down
    /\ offset' = [x |-> Frac(offset.x.n + dx * offset.x.d, offset.x.d),
                  y |-> Frac(offset.y.n + dy * offset.y.d, offset.y.d)]
    /\ mouse' = [mouse EXCEPT !.x = @ + dx, !.y = @ + dy, !.clicks = 0]
    /\ hist' = [HistInit EXCEPT !.gestures = hist.gestures, !.wheels = hist.wheels]
    /\ UNCHANGED <<appVersion, projectName, rooms, connections, selectedRoomIds, currentFloor, scale,
                   snapEnabled, snapStep, toolMode, connectingSourceId, bubbleVars,
                   exportLog, call>>

\* the Escape key
Escape ==
    /\ appVersion = 1
    /\ connectingSourceId' = NoId
    /\ toolMode' = IF toolMode = "connect" THEN "select" ELSE toolMode
    /\ selectedRoomIds' = {}
    /\ hist' = [HistInit EXCEPT !.gestures = hist.gestures]
    /\ UNCHANGED <<appVersion, projectName, rooms, connections, currentFloor, scale, offset, snapEnabled,
                   snapStep, bubbleVars, mouse, exportLog, call>>

\* the Connect Spaces button of the toolbar
ToolConnectButton ==
    /\ appVersion = 1
    /\ ~mouse.down
    /\ toolMode # "connect"
    /\ toolMode' = "connect"
    /\ hist' = [HistInit EXCEPT !.gestures = hist.gestures]
    /\ UNCHANGED <<appVersion, projectName, rooms, connections, selectedRoomIds, currentFloor, scale, offset,
                   snapEnabled, snapStep, connectingSourceId, bubbleVars, mouse, exportLog, call>>

\* handleMouseDown of the canvas for a left press on the background
BackgroundMouseDown ==
    /\ appVersion = 1
    /\ ~mouse.down
    /\ IF connectingSourceId # NoId
       THEN /\ connectingSourceId' = NoId
            /\ toolMode' = "select"
            /\ UNCHANGED selectedRoomIds
       ELSE /\ selectedRoomIds' = IF toolMode = "select" THEN {} ELSE selectedRoomIds
            /\ UNCHANGED <<connectingSourceId, toolMode>>
    /\ mouse' = [mouse EXCEPT !.clicks = 0, !.target = NoId]
    /\ hist' = [HistInit EXCEPT !.gestures = hist.gestures]
    /\ UNCHANGED <<appVersion, projectName, rooms, connections, currentFloor, scale, offset, snapEnabled,
                   snapStep, bubbleVars, exportLog, call>>

\* the Connect / Cancel Connect button of the tools menu of a Bubble
ToolsConnect(id) ==
    /\ appVersion = 1
    /\ ~mouse.down
    /\ Rendered(rooms, currentFloor, id)
    /\ connections' = handleConnect(id).connections
    /\ connectingSourceId' = handleConnect(id).source
    /\ toolMode' = handleConnect(id).toolMode
    /\ hist' = [HistInit EXCEPT !.gestures = hist.gestures, !.kind = ConnectKind(id)]
    /\ UNCHANGED <<appVersion, projectName, rooms, selectedRoomIds, currentFloor, scale, offset, snapEnabled,
                   snapStep, bubbleVars, mouse, exportLog, call>>

\* onLinkToggle of a Bubble of the second App
LinkToggle(id) ==
    /\ appVersion = 2
    /\ Rendered(rooms, currentFloor, id)
    /\ connections' = toggleLink(id).connections
    /\ connectingSourceId' = toggleLink(id).source
    /\ hist' = [HistInit EXCEPT !.gestures = hist.gestures, !.kind = ConnectKind(id)]
    /\ UNCHANGED <<appVersion, projectName, rooms, selectedRoomIds, currentFloor, scale, offset, snapEnabled,
                   snapStep, toolMode, bubbleVars, mouse, exportLog, call>>

---------------------------------------------------------------------------
(* Deleting spaces *)

\* the pointer position in the coordinates of the Bubble of room:
\* (e.clientX - rect.left) / zoomScale with rect the box of the Bubble
clickPoint(room) ==
    LET wx == screenToWorldAt(mouse.x, rect.left, offset.x, scale)
        wy == screenToWorldAt(mouse.y, rect.top, offset.y, scale)
    IN  Pt(Exact(wx.n, wx.d) - room.x, Exact(wy.n, wy.d) - room.y)

\* the point c lies on the edge from p to q
OnEdge(c, p, q) ==
    /\ (q.x - p.x) * (c.y - p.y) = (q.y - p.y) * (c.x - p.x)
    /\ Min2(p.x, q.x) <= c.x /\ c.x <= Max2(p.x, q.x)
    /\ Min2(p.y, q.y) <= c.y /\ c.y <= Max2(p.y, q.y)

\* handleEdgeDoubleClick: the dblclick event the browser sends to the line
\* of edge index after the second release on it; a vertex is inserted at
\* the pointer and becomes the dragged vertex
handleEdgeDoubleClick(id, index) ==
    /\ OverlayShown(id)
    /\ mouse.clicks = 2 /\ mouse.target = id /\ mouse.part = "edge" /\ mouse.index = index
    /\ LET room == RoomOf(rooms, id)
           old == ensurePolygon(room)
           click == clickPoint(room)
           poly == SubSeq(old, 1, index + 1) \o <<click>> \o SubSeq(old, index + 2, Len(old))
       IN  /\ index < Len(old)
           /\ OnEdge(click, old[index + 1], old[((index + 1) % Len(old)) + 1])
           /\ rooms' = updateRoom(rooms, selectedRoomIds, id, [polygon |-> poly])
           /\ startDragState' = [startDragState EXCEPT ![id] = StartPoly(poly)]
    /\ draggingVertexIndex' = [draggingVertexIndex EXCEPT ![id] = Some(index + 1)]
    /\ mouse' = [mouse EXCEPT !.clicks = 0]
    /\ hist' = [Down("vertex", id) EXCEPT !.gestures = hist.gestures, !.dbl = TRUE]
    /\ UNCHANGED <<appVersion, projectName, connections, selectedRoomIds, currentFloor, scale, offset,
                   snapEnabled, snapStep, toolMode, connectingSourceId, isDragging,
                   resizeHandle, draggingEdgeIndex, isEditingOutline, activeSnapLines,
                   exportLog, call>>

\* connections.filter(c => keep(c.fromId) && keep(c.toId))
FilterConnections(conns, keep) ==
    SelectSeq(conns, LAMBDA c : c.fromId \in keep /\ c.toId \in keep)

\* handleDeleteSelected, the Delete Room button of the properties panel:
\* the selected spaces go back to the unplaced list
handleDeleteSelected ==
    /\ appVersion = 1
    /\ ~mouse.down
    /\ Cardinality(selectedRoomIds) = 1
    /\ selectedRoomIds \subseteq IdsOf(rooms)
    /\ rooms' = [i \in DOMAIN rooms |->
                    IF rooms[i].id \in selectedRoomIds
                    THEN [rooms[i] EXCEPT !.isPlaced = FALSE] ELSE rooms[i]]
    /\ selectedRoomIds' = {}
    /\ connections' = FilterConnections(connections, RoomIds \ selectedRoomIds)
    /\ hist' = [HistInit EXCEPT !.gestures = hist.gestures, !.deleted = selectedRoomIds]
    /\ UNCHANGED <<appVersion, projectName, currentFloor, scale, offset, snapEnabled, snapStep, toolMode,
                   connectingSourceId, bubbleVars, mouse, exportLog, call>>

\* the room handleProgramChange stores for a row of the program editor
ProgramRow(currentRooms, newRoom) ==
    IF HasRoom(currentRooms, newRoom.id)
    THEN LET existing == RoomOf(currentRooms, newRoom.id)
             areaChanged == newRoom.area # NotANumber /\ Abs(existing.area - newRoom.area) > 1
         IN  [existing EXCEPT
                !.area = newRoom.area,
                !.width = IF areaChanged THEN SideOf(newRoom.area) ELSE @,
                !.height = IF areaChanged THEN SideOf(newRoom.area) ELSE @]
    ELSE [newRoom EXCEPT !.width = SideOf(newRoom.area), !.height = SideOf(newRoom.area),
                         !.isPlaced = FALSE]

\* handleProgramChange(updatedRooms)
handleProgramChange(updatedRooms) ==
    /\ rooms' = [i \in DOMAIN updatedRooms |-> ProgramRow(rooms, updatedRooms[i])]
    /\ connections' = FilterConnections(connections, IdsOf(updatedRooms))

\* handleDeleteRow of the program editor, handed to the App by updateParent
ProgramDeleteRow(id) ==
    /\ appVersion = 1
    /\ ~mouse.down
    /\ HasRoom(rooms, id)
    /\ handleProgramChange(SelectSeq(rooms, LAMBDA r : r.id # id))
    /\ hist' = [HistInit EXCEPT !.gestures = hist.gestures, !.deleted = {id}]
    /\ UNCHANGED <<appVersion, projectName, selectedRoomIds, currentFloor, scale, offset, snapEnabled, snapStep,
                   toolMode, connectingSourceId, bubbleVars, mouse, exportLog, call>>

\* an edit of the area of a row of the program editor
ProgramAreaEdit(id, newArea) ==
    /\ appVersion = 1
    /\ ~mouse.down
    /\ HasRoom(rooms, id)
    /\ RoomOf(rooms, id).area # newArea
    /\ handleProgramChange(MapRoom(rooms, id, [area |-> newArea]))
    /\ hist' = [HistInit EXCEPT !.gestures = hist.gestures]
    /\ UNCHANGED <<appVersion, projectName, selectedRoomIds, currentFloor, scale, offset, snapEnabled, snapStep,
                   toolMode, connectingSourceId, bubbleVars, mouse, exportLog, call>>

\* what the remote model can answer, as analyzeProgram sees it: the call is
\* rejected, the key is missing, the response has no text, or the text is
\* JSON with or without a project name, with or without a spaces list, whose
\* spaces have a numeric area or none
AiSpace(area) == [name |-> "Hall", area |-> area, zone |-> "Public"]
AiResponses ==
    {[kind |-> k, projectName |-> "", hasSpaces |-> FALSE, spaces |-> <<>>] :
        k \in {"rejected", "noKey", "noText"}}
    \cup {[kind |-> "json", projectName |-> n, hasSpaces |-> FALSE, spaces |-> <<>>] :
             n \in {"", "House"}}
    \cup {[kind |-> "json", projectName |-> n, hasSpaces |-> TRUE, spaces |-> l] :
             n \in {"", "House"},
             l \in {<<>>, <<AiSpace(400)>>, <<AiSpace(NotANumber)>>,
                    <<AiSpace(400), AiSpace(NotANumber)>>}}

\* the responseSchema of the request: projectName and spaces are required,
\* and every space has a numeric area
SchemaValid(resp) ==
    /\ resp.projectName # ""
    /\ resp.hasSpaces
    /\ \A i \in DOMAIN resp.spaces : resp.spaces[i].area # NotANumber

\* analyzeProgram: it throws unless the response has text, and returns
\* JSON.parse of the text as it is
analyzeProgram(resp) == [threw |-> resp.kind # "json", data |-> resp]

\* the rooms handleAiGenerate builds from data.spaces
generatedRooms(data) ==
    [i \in DOMAIN data.spaces |->
        [id |-> IF i = 1 THEN "ai0" ELSE "ai1", area |-> data.spaces[i].area,
         isPlaced |-> FALSE, floor |-> 0, x |-> 0, y |-> 0, width |-> 100, height |-> 100,
         polygon |-> <<>>, zone |-> data.spaces[i].zone]]

\* handleAiGenerate of the program editor: data.spaces.map throws when the
\* list is missing; the catch block shows the alert and changes nothing
handleAiGenerate(resp) ==
    /\ appVersion = 1
    /\ ~mouse.down
    /\ LET result == analyzeProgram(resp)
       IN  IF result.threw \/ ~result.data.hasSpaces
           THEN UNCHANGED <<projectName, rooms, connections>>
           ELSE /\ projectName' = IF result.data.projectName # ""
                                  THEN result.data.projectName ELSE projectName
                /\ handleProgramChange(generatedRooms(result.data))
    /\ hist' = [HistInit EXCEPT !.gestures = hist.gestures,
                                !.ai = IF resp.kind = "json" /\ SchemaValid(resp)
                                       THEN "ok" ELSE "failed"]
    /\ UNCHANGED <<appVersion, selectedRoomIds, currentFloor, scale, offset, snapEnabled,
                   snapStep, toolMode, connectingSourceId, bubbleVars, mouse, exportLog, call>>

\* deleteRoom of the second App
deleteRoom(id) ==
    /\ appVersion = 2
    /\ HasRoom(rooms, id)
    /\ rooms' = SelectSeq(rooms, LAMBDA r : r.id # id)
    /\ selectedRoomIds' = selectedRoomIds \ {id}
    /\ hist' = [HistInit EXCEPT !.gestures = hist.gestures, !.deleted = {id}]
    /\ UNCHANGED <<appVersion, projectName, connections, currentFloor, scale, offset, snapEnabled, snapStep,
                   toolMode, connectingSourceId, bubbleVars, mouse, exportLog, call>>

---------------------------------------------------------------------------
(* Floors, placement and export *)

\* the floor buttons of the toolbar
SetCurrentFloor(f) ==
    /\ ~mouse.down
    /\ f # currentFloor
    /\ currentFloor' = f
    /\ hist' = [HistInit EXCEPT !.gestures = hist.gestures]
    /\ UNCHANGED <<appVersion, projectName, rooms, connections, selectedRoomIds, scale, offset, snapEnabled,
                   snapStep, toolMode, connectingSourceId, bubbleVars, mouse, exportLog, call>>

\* onFloorChange(id, d): Move Up Floor / Move Down Floor of the tools menu of
\* a Bubble; the Bubble leaves the canvas of the current floor and its own
\* state goes with it
onFloorChange(id, d) ==
    /\ appVersion = 1
    /\ ~mouse.down
    /\ Rendered(rooms, currentFloor, id)
    /\ LET next == RoomOf(rooms, id).floor + d
       IN  /\ next \in Floors
           /\ rooms' = updateRoom(rooms, selectedRoomIds, id, [floor |-> next])
    /\ isEditingOutline' = [isEditingOutline EXCEPT ![id] = FALSE]
    /\ hist' = [HistInit EXCEPT !.gestures = hist.gestures]
    /\ UNCHANGED <<appVersion, projectName, connections, selectedRoomIds, currentFloor, scale, offset,
                   snapEnabled, snapStep, toolMode, connectingSourceId, isDragging,
                   resizeHandle, draggingVertexIndex, draggingEdgeIndex, activeSnapLines,
                   startDragState, mouse, exportLog, call>>

\* handleDrop: a space of the catalog of unplaced spaces is dropped with the
\* pointer at the world position (wx, wy). The first App derives the square
\* from the area; the second App centres the space as it is and sets
\* neither width nor height
handleDrop(roomId, wx, wy) ==
    /\ ~mouse.down
    /\ HasRoom(rooms, roomId)
    /\ ~RoomOf(rooms, roomId).isPlaced
    /\ IF appVersion = 1
       THEN LET sideInPixels == SideOf(RoomOf(rooms, roomId).area)
                dropX == wx - Exact(sideInPixels, 2)
                dropY == wy - Exact(sideInPixels, 2)
            IN  rooms' = updateRoom(rooms, selectedRoomIds, roomId,
                                    [isPlaced |-> TRUE, floor |-> currentFloor,
                                     x |-> IF snapEnabled THEN snap(dropX) ELSE dropX,
                                     y |-> IF snapEnabled THEN snap(dropY) ELSE dropY,
                                     width |-> sideInPixels, height |-> sideInPixels])
       ELSE LET room == RoomOf(rooms, roomId)
            IN  rooms' = MapRoom(rooms, roomId,
                                 [isPlaced |-> TRUE, floor |-> currentFloor,
                                  x |-> wx - Exact(room.width, 2),
                                  y |-> wy - Exact(room.height, 2)])
    /\ selectedRoomIds' = {roomId}
    /\ hist' = [HistInit EXCEPT !.gestures = hist.gestures]
    /\ UNCHANGED <<appVersion, projectName, connections, currentFloor, scale, offset, snapEnabled, snapStep,
                   toolMode, connectingSourceId, bubbleVars, mouse, exportLog, call>>

\* the program editor of the second App is handed setRooms; a row the
\* editor adds is the row of handleAddRow with the area typed into it
handleAddRow(id, area) ==
    /\ appVersion = 2
    /\ ~mouse.down
    /\ ~HasRoom(rooms, id)
    /\ rooms' = Append(rooms, [id |-> id, area |-> area, isPlaced |-> FALSE, floor |-> 0,
                               x |-> 0, y |-> 0, width |-> 100, height |-> 100,
                               polygon |-> <<>>, zone |-> "Default"])
    /\ hist' = [HistInit EXCEPT !.gestures = hist.gestures]
    /\ UNCHANGED <<appVersion, projectName, connections, selectedRoomIds, currentFloor, scale, offset,
                   snapEnabled, snapStep, toolMode, connectingSourceId, bubbleVars, mouse,
                   exportLog, call>>

\* applyMagneticPhysics. Forces are kept doubled, so that the strength 0.5
\* is 1; centres are kept doubled too (2 * x + width). dirX = dx / dist has
\* a value here for spaces whose centres share a row or a column.
Sign(v) == IF v > 0 THEN 1 ELSE IF v < 0 THEN 0 - 1 ELSE 0

\* what the inner loop adds to (fx, fy) of a for the space b, doubled
PairForce(a, b) ==
    LET dx == (2 * b.x + b.width) - (2 * a.x + a.width)
        dy == (2 * b.y + b.height) - (2 * a.y + a.height)
        dist == Sqrt(dx * dx + dy * dy)
        attract == a.zone = b.zone
        overlapX == (a.width + b.width) - Abs(dx)
        overlapY == (a.height + b.height) - Abs(dy)
        overlaps == Abs(dx) < a.width + b.width /\ Abs(dy) < a.height + b.height
    IN  IF ~b.isPlaced \/ a.floor # b.floor \/ (dx = 0 /\ dy = 0) THEN Pt(0, 0)
        ELSE Pt((IF attract THEN Exact(dx, dist) ELSE 0)
                  - (IF overlaps /\ overlapX < overlapY THEN Sign(dx) * 2 * overlapX ELSE 0),
                (IF attract THEN Exact(dy, dist) ELSE 0)
                  - (IF overlaps /\ ~(overlapX < overlapY) THEN Sign(dy) * 2 * overlapY ELSE 0))

\* (fx, fy) of nextRooms[i], doubled: the sum over every other j
RECURSIVE Force(_, _, _)
Force(nextRooms, i, j) ==
    IF j > Len(nextRooms) THEN Pt(0, 0)
    ELSE LET rest == Force(nextRooms, i, j + 1)
             f == IF i = j THEN Pt(0, 0) ELSE PairForce(nextRooms[i], nextRooms[j])
         IN  Pt(f.x + rest.x, f.y + rest.y)

\* Math.abs(fx) > 0.1 || Math.abs(fy) > 0.1
AboveEpsilon(f) == 10 * Abs(f.x) > 2 \/ 10 * Abs(f.y) > 2

\* the outer loop from index i on: the spaces are moved in place, one after
\* the other
RECURSIVE PhysicsLoop(_, _, _)
PhysicsLoop(nextRooms, i, moved) ==
    IF i > Len(nextRooms) THEN [rooms |-> nextRooms, moved |-> moved]
    ELSE IF ~nextRooms[i].isPlaced THEN PhysicsLoop(nextRooms, i + 1, moved)
    ELSE LET a == nextRooms[i]
             f == Force(nextRooms, i, 1)
         IN  IF AboveEpsilon(f)
             THEN PhysicsLoop([nextRooms EXCEPT ![i] = [a EXCEPT !.x = a.x + Exact(f.x, 2),
                                                                 !.y = a.y + Exact(f.y, 2)]],
                              i + 1, TRUE)
             ELSE PhysicsLoop(nextRooms, i + 1, moved)

\* the clone returned whether or not a space moved
applyMagneticPhysicsMutant(rs) ==
    [rooms |-> PhysicsLoop(rs, 1, FALSE).rooms, same |-> FALSE]

\* moved ? nextRooms : rooms; same tells that the list returned is the
\* list given
applyMagneticPhysics(rs) ==
    LET done == PhysicsLoop(rs, 1, FALSE)
    IN  [rooms |-> IF done.moved THEN done.rooms ELSE rs, same |-> ~done.moved]

\* one run of the interval callback of the Physics Loop effect, which
\* exists while isMagnetMode is on:
\* setRooms(currentRooms => updated === currentRooms ? currentRooms : updated)
PhysicsTick ==
    /\ appVersion = 2
    /\ ~mouse.down
    /\ LET updated == applyMagneticPhysics(rooms)
       IN  /\ rooms' = updated.rooms
           /\ hist' = [HistInit EXCEPT !.gestures = hist.gestures, !.ticks = hist.ticks + 1,
                                       !.tick = IF updated.same THEN "same" ELSE "moved"]
    /\ UNCHANGED <<appVersion, projectName, connections, selectedRoomIds, currentFloor, scale, offset,
                   snapEnabled, snapStep, toolMode, connectingSourceId, bubbleVars, mouse,
                   exportLog, call>>

\* one export: who ran it, the format, the number of spaces placed on the
\* current floor when it ran, and what the user got
\* room.polygon || the four corners of the rectangle
exportPoints(r) ==
    IF Len(r.polygon) > 0 THEN r.polygon ELSE RectPoints(r.width, r.height)

\* minX / minY of handleExport: the least coordinate of the visible
\* outlines, less the padding
exportMin(visible, axis) ==
    LET all == UNION {{visible[i][axis] + exportPoints(visible[i])[k][axis] :
                          k \in DOMAIN exportPoints(visible[i])} : i \in DOMAIN visible}
    IN  (CHOOSE m \in all : \A v \in all : m <= v) - 50

\* the vertices of the LWPOLYLINE the DXF branch writes for r, Y inverted
DxfOutline(r, visible) ==
    LET pts == exportPoints(r)
        offsetX == 0 - exportMin(visible, "x")
        offsetY == 0 - exportMin(visible, "y")
    IN  [k \in DOMAIN pts |->
            Pt(r.x + pts[k].x + offsetX, 0 - (r.y + pts[k].y + offsetY))]

\* the vertices of the path the SVG branch writes for r (square corners),
\* inside the group translated to (r.x, r.y); its subtitle shows r.area
SvgOutline(r) ==
    LET pts == exportPoints(r)
    IN  [k \in DOMAIN pts |-> Pt(r.x + pts[k].x, r.y + pts[k].y)]

\* per visible space, the outline written to the file and the area its
\* label shows (None where the label has the name only)
exportShapes(format) ==
    LET visible == roomsOnCurrentFloor(rooms, currentFloor)
    IN  [i \in DOMAIN visible |->
            [id |-> visible[i].id, area |-> visible[i].area,
             outline |-> IF format = "dxf" THEN DxfOutline(visible[i], visible)
                         ELSE SvgOutline(visible[i]),
             label |-> IF format = "dxf" THEN None ELSE Some(visible[i].area)]]

\* generateDXF, of both DXF modules: one LWPOLYLINE for each of
\* rooms.filter(r => r.isPlaced); the ids of the spaces drawn
generateDXF(rs) ==
    LET placed == SelectSeq(rs, LAMBDA r : r.isPlaced)
    IN  [i \in DOMAIN placed |-> placed[i].id]

Exported(by, format, file, notice) ==
    [by |-> by, format |-> format,
     polylines |-> IF format # "dxf" \/ ~file THEN <<>>
                   ELSE IF by = "handleExport"
                   THEN [i \in DOMAIN roomsOnCurrentFloor(rooms, currentFloor) |->
                            roomsOnCurrentFloor(rooms, currentFloor)[i].id]
                   ELSE generateDXF(rooms),
     visibleRooms |-> Len(roomsOnCurrentFloor(rooms, currentFloor)),
     file |-> file, notice |-> notice,
     shapes |-> IF by = "handleExport" /\ file /\ format \in {"dxf", "svg"}
                THEN exportShapes(format) ELSE <<>>]

ExportDone(entry) ==
    /\ ~mouse.down
    /\ exportLog' = <<entry>>
    /\ UNCHANGED call
    /\ hist' = [HistInit EXCEPT !.gestures = hist.gestures]
    /\ UNCHANGED <<appVars, bubbleVars, mouse>>

GeometryFormats == {"dxf", "svg", "png", "jpeg", "pdf"}
ExportFormats == GeometryFormats \cup {"json"}

\* handleExport of the export system; ctx is whether the browser gives the
\* raster formats a 2d canvas context
handleExport(format, ctx) ==
    IF format = "json"
    THEN ExportDone(Exported("handleExport", format, TRUE, FALSE))
    ELSE IF Len(roomsOnCurrentFloor(rooms, currentFloor)) = 0
    THEN ExportDone(Exported("handleExport", format, FALSE, TRUE))
    ELSE ExportDone(Exported("handleExport", format,
                             format \in {"png", "jpeg"} => ctx, FALSE))

\* exportDXF, the Export DXF button of the toolbar of the first App
exportDXF ==
    /\ appVersion = 1
    /\ ExportDone(Exported("exportDXF", "dxf", TRUE, FALSE))

\* downloadDXF, the DXF button of the second App
downloadDXF ==
    /\ appVersion = 2
    /\ ExportDone(Exported("downloadDXF", "dxf", TRUE, FALSE))

---------------------------------------------------------------------------
(* Initial states *)

Room(id, x, y, w, h, placed, floor) ==
    [id |-> id, area |-> AreaFixed(w * h, PPM2), isPlaced |-> placed, floor |-> floor,
     x |-> x, y |-> y, width |-> w, height |-> h, polygon |-> <<>>, zone |-> "Default"]

NoCall == [fn |-> "none", args |-> <<>>, done |-> TRUE, result |-> <<>>]

BubbleInit ==
    /\ isDragging = [id \in RoomIds |-> FALSE]
    /\ resizeHandle = [id \in RoomIds |-> "null"]
    /\ draggingVertexIndex = [id \in RoomIds |-> None]
    /\ draggingEdgeIndex = [id \in RoomIds |-> None]
    /\ isEditingOutline = [id \in RoomIds |-> FALSE]
    /\ activeSnapLines = [id \in RoomIds |-> NoLines]
    /\ startDragState = [id \in RoomIds |-> InitialStart]

\* the offset once the program has been saved for the first time (first
\* App) or from the start (second App): the centre of a 1280 x 720 window
InitialOffset == [x |-> Frac(640, 1), y |-> Frac(360, 1)]

MouseInit == [x |-> 0, y |-> 0, down |-> FALSE, clicks |-> 0, target |-> NoId,
              part |-> "root", index |-> 0]

---------------------------------------------------------------------------
(* Whole-shape drag on the canvas of the first App: three placed rooms on    *)
(* the current floor, single and multiple selection, grid snap and zoom.    *)

DragXs == {0, 12, 36}
DragYs == {0, 80}

DragTargets == {"B", "C"}

InitDrag ==
    /\ appVersion = 1
    /\ rooms = << Room("A", 40, 0, 40, 40, TRUE, 0),
                  Room("B", 0, 0, 20, 20, TRUE, 0),
                  Room("C", 200, 200, 20, 20, TRUE, 0) >>
    /\ currentFloor = 0
    /\ scale \in ExactScales
    /\ offset = InitialOffset
    /\ projectName = "Untitled"
    /\ snapEnabled \in BOOLEAN
    /\ snapStep = 10
    /\ toolMode = "select"
    /\ connectingSourceId = NoId
    /\ selectedRoomIds \in SUBSET DragTargets
    /\ connections = <<>>
    /\ mouse = MouseInit
    /\ exportLog = <<>>
    /\ hist = HistInit
    /\ BubbleInit
    /\ call = NoCall

NextDrag ==
    \/ (hist.gestures < MaxGestures /\
        \E id \in DragTargets, multi \in BOOLEAN : RootMouseDown(id, 1, multi))
    \/ \E px \in DragXs, py \in DragYs : MouseMove(px, py)
    \/ MouseUp

SpecDrag == InitDrag /\ [][NextDrag]_vars

---------------------------------------------------------------------------
(* Resizing a selected rectangle of the first App by its edge handles, with *)
(* the grid snap, the grid step and the zoom changed between gestures.      *)

ResizeXs == {80, 10}
ResizeYs == {80, 40}

ResizeTargets == {"A"}
Handles == {"n", "s", "e", "w"}

InitResize ==
    /\ appVersion = 1
    /\ rooms = << Room("A", 0, 0, 100, 60, TRUE, 0),
                  Room("B", 200, 200, 40, 40, TRUE, 0) >>
    /\ currentFloor = 0
    /\ scale = ScaleUnit
    /\ offset = InitialOffset
    /\ projectName = "Untitled"
    /\ snapEnabled = FALSE
    /\ snapStep = 10
    /\ toolMode = "select"
    /\ connectingSourceId = NoId
    /\ selectedRoomIds \in {{"A"}, {"A", "B"}}
    /\ connections = <<>>
    /\ mouse = [MouseInit EXCEPT !.x = 80, !.y = 80]
    /\ exportLog = <<>>
    /\ hist = HistInit
    /\ BubbleInit
    /\ call = NoCall

NextResize ==
    \/ (hist.gestures < MaxGestures /\
        \E id \in ResizeTargets, handle \in Handles : handleResizeStart(id, handle))
    \/ \E px \in ResizeXs, py \in ResizeYs : MouseMove(px, py)
    \/ MouseUp
    \/ ToggleSnap
    \/ \E m \in gridOptions : SetSnapStep(m)
    \/ \E deltaY \in WheelDeltas :
          /\ newScale(deltaY) \in ExactScales
          /\ newScale(deltaY) # scale
          /\ Wheel(deltaY, 80, 80)

SpecResize == InitResize /\ [][NextResize]_vars

---------------------------------------------------------------------------
(* Outline editing in the first App: double-click and the tools menu, vertex *)
(* and edge drags, Ctrl+edge extrusion and the Area fields.                  *)

OutlinePoints == {<<50, 50>>, <<20, 50>>, <<50, 80>>}

OutlineTargets == {"A"}
VertexIndices == {0, 2}
EdgeIndices == {0}

InitOutline ==
    /\ appVersion = 1
    /\ rooms = << Room("A", 100, 100, 40, 40, TRUE, 0),
                  Room("B", 200, 100, 20, 20, TRUE, 0) >>
    /\ currentFloor = 0
    /\ scale = ScaleUnit
    /\ offset = InitialOffset
    /\ projectName = "Untitled"
    /\ snapEnabled \in BOOLEAN
    /\ snapStep = 10
    /\ toolMode = "select"
    /\ connectingSourceId = NoId
    /\ selectedRoomIds = {"A"}
    /\ connections = <<>>
    /\ mouse = [MouseInit EXCEPT !.x = 50, !.y = 50]
    /\ exportLog = <<>>
    /\ hist = HistInit
    /\ BubbleInit
    /\ call = NoCall

NextOutline ==
    \/ (hist.gestures < MaxPresses /\
        \E id \in OutlineTargets, detail \in {1, 2} : RootMouseDown(id, detail, FALSE))
    \/ \E id \in OutlineTargets : RootDoubleClick(id)
    \/ \E id \in OutlineTargets : ToolsModifyOutline(id)
    \/ (hist.gestures < MaxPresses /\
        \E id \in OutlineTargets, index \in VertexIndices : handleVertexMouseDown(id, index))
    \/ (hist.gestures < MaxPresses /\
        \E id \in OutlineTargets, index \in EdgeIndices, ctrl \in BOOLEAN :
            handleEdgeMouseDown(id, index, ctrl))
    \/ (hist.gestures < MaxPresses /\
        \E id \in OutlineTargets, handle \in {"e"} : handleResizeStart(id, handle))
    \/ \E p \in OutlinePoints : MouseMove(p[1], p[2])
    \/ MouseUp
    \/ \E newArea \in AreaInputs : PropertiesAreaEdit(newArea)
    \/ \E id \in OutlineTargets, newArea \in AreaInputs : ProgramAreaEdit(id, newArea)

SpecOutline == InitOutline /\ [][NextOutline]_vars

\* edge drags and Ctrl+edge extrusions of every edge of the outline
ExtrudePoints == {<<20, 50>>, <<50, 80>>, <<80, 60>>, <<60, 80>>}
ExtrudeEdges == 0..5

NextExtrude ==
    \/ \E id \in OutlineTargets : ToolsModifyOutline(id)
    \/ (hist.gestures < MaxGestures /\
        \E id \in OutlineTargets, index \in ExtrudeEdges, ctrl \in BOOLEAN :
            handleEdgeMouseDown(id, index, ctrl))
    \/ \E p \in ExtrudePoints : MouseMove(p[1], p[2])
    \/ MouseUp

SpecExtrude == InitOutline /\ [][NextExtrude]_vars

\* clicks and double-clicks on the edges of the outline of A, the pointer
\* on its top edge or on its left edge
EdgeClickPoints == {<<1016, 516>>, <<996, 536>>, <<1026, 546>>}

InitEdgeClick ==
    /\ appVersion = 1
    /\ rooms = << Room("A", 100, 100, 40, 40, TRUE, 0),
                  Room("B", 200, 100, 20, 20, TRUE, 0) >>
    /\ currentFloor = 0
    /\ scale = ScaleUnit
    /\ offset = InitialOffset
    /\ projectName = "Untitled"
    /\ snapEnabled \in BOOLEAN
    /\ snapStep = 10
    /\ toolMode = "select"
    /\ connectingSourceId = NoId
    /\ selectedRoomIds = {"A"}
    /\ connections = <<>>
    /\ \E p \in {<<1016, 516>>, <<996, 536>>} : mouse = [MouseInit EXCEPT !.x = p[1], !.y = p[2]]
    /\ exportLog = <<>>
    /\ hist = HistInit
    /\ BubbleInit
    /\ call = NoCall

NextEdgeClick ==
    \/ \E id \in OutlineTargets : ToolsModifyOutline(id)
    \/ (hist.gestures < MaxPresses /\
        \E id \in OutlineTargets, index \in {0, 3} : handleEdgeMouseDown(id, index, FALSE))
    \/ \E id \in OutlineTargets, index \in {0, 3} : handleEdgeDoubleClick(id, index)
    \/ \E p \in EdgeClickPoints : MouseMove(p[1], p[2])
    \/ MouseUp

SpecEdgeClick == InitEdgeClick /\ [][NextEdgeClick]_vars

\* the same editing session with DXF and SVG exports of handleExport taken
\* at any point of it
NextShape ==
    \/ NextOutline
    \/ \E format \in {"dxf", "svg"} : handleExport(format, TRUE)

SpecShape == InitOutline /\ [][NextShape]_vars

---------------------------------------------------------------------------
(* Connecting and deleting spaces, in the first App (handleConnect, the     *)
(* Delete Room button, the program editor) and in the second (toggleLink,   *)
(* deleteRoom).                                                             *)

InitDocument ==
    /\ appVersion \in {1, 2}
    /\ rooms = << Room("A", 0, 0, 40, 40, TRUE, 0),
                  Room("B", 100, 0, 40, 40, TRUE, 0),
                  Room("C", 200, 0, 40, 40, TRUE, 0) >>
    /\ currentFloor = 0
    /\ scale = ScaleUnit
    /\ offset = InitialOffset
    /\ projectName = "Untitled"
    /\ snapEnabled = FALSE
    /\ snapStep = 10
    /\ toolMode = "select"
    /\ connectingSourceId = NoId
    /\ selectedRoomIds = {}
    /\ connections = <<>>
    /\ mouse = MouseInit
    /\ exportLog = <<>>
    /\ hist = HistInit
    /\ BubbleInit
    /\ call = NoCall

NextDocument ==
    \/ (hist.gestures < MaxPresses /\
        \E id \in RoomIds : RootMouseDown(id, 1, FALSE))
    \/ MouseUp
    \/ ToolConnectButton
    \/ BackgroundMouseDown
    \/ Escape
    \/ \E id \in RoomIds : ToolsConnect(id)
    \/ \E id \in RoomIds : LinkToggle(id)
    \/ handleDeleteSelected
    \/ \E id \in RoomIds : ProgramDeleteRow(id)
    \/ \E id \in RoomIds : deleteRoom(id)

SpecDocument == InitDocument /\ [][NextDocument]_vars

---------------------------------------------------------------------------
(* Export of the current floor, with spaces placed, unplaced, deleted and   *)
(* the floor switched.                                                      *)

DropPoints == {<<120, 120>>}

InitExport ==
    /\ appVersion \in {1, 2}
    /\ rooms = << Room("A", 0, 0, 40, 40, TRUE, 0),
                  Room("B", 100, 0, 40, 40, TRUE, 1),
                  Room("C", 0, 0, 40, 40, FALSE, 0) >>
    /\ currentFloor = 0
    /\ scale = ScaleUnit
    /\ offset = InitialOffset
    /\ projectName = "Untitled"
    /\ snapEnabled = FALSE
    /\ snapStep = 10
    /\ toolMode = "select"
    /\ connectingSourceId = NoId
    /\ selectedRoomIds \in {{}, {"A"}}
    /\ connections = <<>>
    /\ mouse = MouseInit
    /\ exportLog = <<>>
    /\ hist = HistInit
    /\ BubbleInit
    /\ call = NoCall

NextExport ==
    \/ \E f \in Floors : SetCurrentFloor(f)
    \/ \E id \in RoomIds, p \in DropPoints : handleDrop(id, p[1], p[2])
    \/ handleDeleteSelected
    \/ \E id \in RoomIds : deleteRoom(id)
    \/ \E format \in ExportFormats, ctx \in BOOLEAN : handleExport(format, ctx)
    \/ exportDXF
    \/ downloadDXF

SpecExport == InitExport /\ [][NextExport]_vars

---------------------------------------------------------------------------
(* Properties of the whole-shape drag *)

----------------------------------------------------------------------------
(* Placing the spaces of the inventory, in both Apps. *)

PlacePoints == {<<120, 120>>, <<200, 160>>}
RowAreas == {100, 900}

InitPlace ==
    /\ appVersion \in {1, 2}
    /\ rooms = << Room("A", 0, 0, 40, 40, TRUE, 0),
                  Room("B", 0, 0, 60, 60, FALSE, 0) >>
    /\ currentFloor = 0
    /\ scale = ScaleUnit
    /\ offset = InitialOffset
    /\ projectName = "Untitled"
    /\ snapEnabled = FALSE
    /\ snapStep = 10
    /\ toolMode = "select"
    /\ connectingSourceId = NoId
    /\ selectedRoomIds = {}
    /\ connections = <<>>
    /\ mouse = MouseInit
    /\ exportLog = <<>>
    /\ hist = HistInit
    /\ BubbleInit
    /\ call = NoCall

NextPlace ==
    \/ \E f \in Floors : SetCurrentFloor(f)
    \/ \E id \in RoomIds, p \in PlacePoints : handleDrop(id, p[1], p[2])
    \/ handleDeleteSelected
    \/ \E id \in RoomIds : deleteRoom(id)
    \/ \E area \in RowAreas : handleAddRow("C", area)

SpecPlace == InitPlace /\ [][NextPlace]_vars

---------------------------------------------------------------------------
(* The second App with the magnet mode on: three spaces in a row, every   *)
(* space with none or two spaces of its zone acting on it, so that the    *)
(* forces are whole pixels.                                               *)

MagnetXs == {0, 20, 46}
MagnetZones == {"Default", "Public", "Private"}

InitPhysics ==
    /\ appVersion = 2
    /\ \E ax \in MagnetXs, cx \in {90, 120}, za \in MagnetZones, zc \in MagnetZones,
          placed \in BOOLEAN, f \in Floors :
          /\ (za = "Default") = (placed /\ f = 0 /\ zc = "Default")
          /\ za = "Default" \/ ~(placed /\ f = 0 /\ zc \in {za, "Default"})
          /\ rooms = << [Room("A", ax, 0, 40, 40, TRUE, 0) EXCEPT !.zone = za],
                        Room("B", 50, 0, 40, 40, TRUE, 0),
                        IF placed
                        THEN [Room("C", cx, 0, 40, 40, TRUE, f) EXCEPT !.zone = zc]
                        ELSE [Room("C", 0, 0, 40, 40, FALSE, 0) EXCEPT !.zone = zc] >>
    /\ currentFloor = 0
    /\ scale = ScaleUnit
    /\ offset = InitialOffset
    /\ projectName = "Untitled"
    /\ snapEnabled = FALSE
    /\ snapStep = 10
    /\ toolMode = "select"
    /\ connectingSourceId = NoId
    /\ selectedRoomIds = {}
    /\ connections = <<>>
    /\ mouse = MouseInit
    /\ exportLog = <<>>
    /\ hist = HistInit
    /\ BubbleInit
    /\ call = NoCall

NextPhysics == hist.ticks < MaxTicks /\ PhysicsTick

SpecPhysics == InitPhysics /\ [][NextPhysics]_vars

---------------------------------------------------------------------------
(* The view of both Apps: wheel zoom at the pointer, and panning. *)

ViewDeltas == {0 - 500, 500, 6000, 0 - 6000}
CursorPoints == {<<400, 200>>, <<700, 500>>}
PanSteps == {<<30, 0 - 10>>}

InitView ==
    /\ appVersion \in {1, 2}
    /\ rooms = << Room("A", 0, 0, 40, 40, TRUE, 0) >>
    /\ currentFloor = 0
    /\ scale = ScaleUnit
    /\ offset = InitialOffset
    /\ projectName = "Untitled"
    /\ snapEnabled = FALSE
    /\ snapStep = 10
    /\ toolMode = "select"
    /\ connectingSourceId = NoId
    /\ selectedRoomIds = {}
    /\ connections = <<>>
    /\ mouse = [MouseInit EXCEPT !.x = 400, !.y = 200]
    /\ exportLog = <<>>
    /\ hist = HistInit
    /\ BubbleInit
    /\ call = NoCall

NextView ==
    \/ (hist.wheels < MaxWheels /\
        \E deltaY \in ViewDeltas, c \in CursorPoints : Wheel(deltaY, c[1], c[2]))
    \/ (hist.wheels < MaxWheels /\ mouse.x < 450 /\ \E d \in PanSteps : Pan(d[1], d[2]))

SpecView == InitView /\ [][NextView]_vars

---------------------------------------------------------------------------
(* The program editor of the first App: rows edited and deleted by hand, *)
(* and the program generated by the remote model.                        *)

ProgramAreas == {100, 900}

InitProgram ==
    /\ appVersion = 1
    /\ rooms = << Room("A", 0, 0, 40, 40, TRUE, 0), Room("B", 100, 0, 40, 40, TRUE, 0),
                  Room("C", 0, 0, 40, 40, FALSE, 0) >>
    /\ currentFloor = 0
    /\ scale = ScaleUnit
    /\ offset = InitialOffset
    /\ projectName = "Untitled"
    /\ snapEnabled = FALSE
    /\ snapStep = 10
    /\ toolMode = "select"
    /\ connectingSourceId = NoId
    /\ selectedRoomIds = {}
    /\ connections = << [fromId |-> "A", toId |-> "B"] >>
    /\ mouse = MouseInit
    /\ exportLog = <<>>
    /\ hist = HistInit
    /\ BubbleInit
    /\ call = NoCall

NextProgram ==
    \/ \E resp \in AiResponses : handleAiGenerate(resp)
    \/ \E id \in IdsOf(rooms) : ProgramDeleteRow(id)
    \/ \E id \in IdsOf(rooms), newArea \in ProgramAreas : ProgramAreaEdit(id, newArea)

SpecProgram == InitProgram /\ [][NextProgram]_vars

---------------------------------------------------------------------------
(* The utility functions, called with arguments drawn from bounded sets. *)

\* cross product of the vectors OA and OB
cross(o, a, b) == (a.x - o.x) * (b.y - o.y) - (a.y - o.y) * (b.x - o.x)

\* [...points].sort by x, then by y
RECURSIVE SortPoints(_)
SortPoints(ps) ==
    IF ps = <<>> THEN <<>>
    ELSE LET h == Head(ps)
             rest == SortPoints(Tail(ps))
             n == Cardinality({i \in DOMAIN rest :
                                 IF rest[i].x = h.x THEN rest[i].y < h.y ELSE rest[i].x < h.x})
         IN  SubSeq(rest, 1, n) \o <<h>> \o SubSeq(rest, n + 1, Len(rest))

\* the pop condition of getConvexHull without the equality, which keeps a
\* point that is collinear with its neighbours
RECURSIVE PopWhileMutant(_, _)
PopWhileMutant(stack, p) ==
    IF Len(stack) >= 2 /\ cross(stack[Len(stack) - 1], stack[Len(stack)], p) < 0
    THEN PopWhileMutant(SubSeq(stack, 1, Len(stack) - 1), p)
    ELSE stack

\* the while loop of getConvexHull that pops the points p makes concave
RECURSIVE PopWhile(_, _)
PopWhile(stack, p) ==
    IF Len(stack) >= 2 /\ cross(stack[Len(stack) - 1], stack[Len(stack)], p) <= 0
    THEN PopWhile(SubSeq(stack, 1, Len(stack) - 1), p)
    ELSE stack

\* one of the two for loops of getConvexHull over the points in order
RECURSIVE HalfHull(_, _, _)
HalfHull(ordered, i, stack) ==
    IF i > Len(ordered) THEN stack
    ELSE HalfHull(ordered, i + 1, Append(PopWhile(stack, ordered[i]), ordered[i]))

getConvexHull(points) ==
    IF Len(points) <= 1 THEN points
    ELSE LET sorted == SortPoints(points)
             lower == HalfHull(sorted, 1, <<>>)
             upper == HalfHull([i \in DOMAIN sorted |-> sorted[Len(sorted) + 1 - i]], 1, <<>>)
         IN  SubSeq(lower, 1, Len(lower) - 1) \o SubSeq(upper, 1, Len(upper) - 1)

\* a call of the utility function fn that is about to be made with the
\* arguments args, and its return; the document is not involved
Pending(fn, args) == [fn |-> fn, args |-> args, done |-> FALSE, result |-> <<>>]
Return(fn, result) ==
    /\ call.fn = fn
    /\ ~call.done
    /\ call' = [call EXCEPT !.done = TRUE, !.result = result]
    /\ UNCHANGED <<appVars, bubbleVars, mouse, exportLog, hist>>

MaxHullPoints == 4
GridPoints == {Pt(px, py) : px \in 0..2, py \in 0..2}
PointLists(n) == UNION {[1..k -> GridPoints] : k \in 0..n}

HullCall == Return("getConvexHull", getConvexHull(call.args))

\* calculatePolygonArea without Math.abs
polygonAreaMutant(points) == Frac(ShoelaceSum(points, 1), 2 * PPM2)

\* calculatePolygonArea(points, pixelsPerMeter) as the number it returns,
\* before any toFixed
polygonArea(points) == Frac(Abs(ShoelaceSum(points, 1)), 2 * PPM2)

AreaCall == Return("calculatePolygonArea", polygonArea(call.args))

\* ctx.measureText(line).width for a font in which every character,
\* the space and the hyphen included, is CharWidth wide; a string is the
\* sequence of its characters
CharWidth == 2
measureText(line) == Len(line) * CharWidth

\* text.split(' ')
RECURSIVE SplitWords(_)
SplitWords(text) ==
    IF \A i \in DOMAIN text : text[i] # " " THEN <<text>>
    ELSE LET k == CHOOSE i \in DOMAIN text :
                      text[i] = " " /\ \A j \in 1..(i - 1) : text[j] # " "
         IN  <<SubSeq(text, 1, k - 1)>> \o SplitWords(SubSeq(text, k + 1, Len(text)))

\* the first loop of wrapText: words are added to the current line while
\* the line stays narrower than maxWidth
RECURSIVE FirstPass(_, _, _, _)
FirstPass(words, i, currentLine, maxWidth) ==
    IF i > Len(words) THEN <<currentLine>>
    ELSE IF measureText(currentLine \o <<" ">> \o words[i]) < maxWidth
         THEN FirstPass(words, i + 1, currentLine \o <<" ">> \o words[i], maxWidth)
         ELSE <<currentLine>> \o FirstPass(words, i + 1, words[i], maxWidth)

\* the second loop of wrapText for one line: the longest prefix that fits
\* with a hyphen is split off while the rest is too wide; when not even one
\* character fits with the hyphen the loop ends and the rest is kept whole
RECURSIVE HardBreak(_, _)
HardBreak(remaining, maxWidth) ==
    LET fits == {k \in 1..(Len(remaining) - 1) :
                    measureText(SubSeq(remaining, 1, k) \o <<"-">>) <= maxWidth}
    IN  IF measureText(remaining) <= maxWidth \/ fits = {} THEN <<remaining>>
        ELSE LET splitIndex == CHOOSE k \in fits : \A j \in fits : j <= k
             IN  <<SubSeq(remaining, 1, splitIndex) \o <<"-">>>>
                 \o HardBreak(SubSeq(remaining, splitIndex + 1, Len(remaining)), maxWidth)

RECURSIVE BreakLines(_, _, _)
BreakLines(lines, i, maxWidth) ==
    IF i > Len(lines) THEN <<>>
    ELSE HardBreak(lines[i], maxWidth) \o BreakLines(lines, i + 1, maxWidth)

wrapText(text, maxWidth) ==
    IF text = <<>> THEN <<>>
    ELSE LET words == SplitWords(text)
         IN  BreakLines(FirstPass(words, 2, words[1], maxWidth), 1, maxWidth)

WrapCall == Return("wrapText", wrapText(call.args.text, call.args.maxWidth))

MaxTextLen == 4
Texts == UNION {[1..k -> {"a", " "}] : k \in 0..MaxTextLen}
MaxWidths == {1, 3, 4, 5}

\* zone labels are sequences of characters; charCodeAt and toLowerCase for
\* the characters the labels of the model are written with
CharCodes ==
    {<<" ", 32>>, <<"A", 65>>, <<"C", 67>>, <<"D", 68>>, <<"L", 76>>,
     <<"O", 79>>, <<"P", 80>>, <<"S", 83>>, <<"Z", 90>>, <<"a", 97>>,
     <<"b", 98>>, <<"c", 99>>, <<"d", 100>>, <<"e", 101>>, <<"f", 102>>,
     <<"i", 105>>, <<"l", 108>>, <<"m", 109>>, <<"n", 110>>, <<"o", 111>>,
     <<"p", 112>>, <<"r", 114>>, <<"s", 115>>, <<"t", 116>>, <<"u", 117>>,
     <<"v", 118>>, <<"z", 122>>}
charCodeAt(ch) == (CHOOSE e \in CharCodes : e[1] = ch)[2]
toLowerCase(z) ==
    [i \in DOMAIN z |->
        IF charCodeAt(z[i]) >= 65 /\ charCodeAt(z[i]) <= 90
        THEN (CHOOSE e \in CharCodes : e[2] = charCodeAt(z[i]) + 32)[1] ELSE z[i]]

\* z.includes(k)
Includes(z, k) ==
    \E i \in 0..(Len(z) - Len(k)) : SubSeq(z, i + 1, i + Len(k)) = k

\* the keys of the palette: those of the map of getHexColorForZone, which
\* are taken to be the keys of ZONE_COLORS too, in the order of the table
ZoneKeys ==
    <<<<"P", "u", "b", "l", "i", "c">>, <<"P", "r", "i", "v", "a", "t", "e">>,
      <<"S", "e", "r", "v", "i", "c", "e">>,
      <<"C", "i", "r", "c", "u", "l", "a", "t", "i", "o", "n">>,
      <<"O", "u", "t", "d", "o", "o", "r">>, <<"D", "e", "f", "a", "u", "l", "t">>>>

\* the fallback colour: hash = charCode + ((hash << 5) - hash) over the
\* characters in 32 bits, and hash & 0x00FFFFFF; the low 24 bits of the
\* 32-bit sum are the sum modulo 2^24, which is kept at every step
RECURSIVE zoneHash(_, _, _)
zoneHash(zone, i, hash) ==
    IF i > Len(zone) THEN hash
    ELSE zoneHash(zone, i + 1, (charCodeAt(zone[i]) + 31 * hash) % 16777216)

PaletteEntry(key) == [entry |-> key, hash |-> 0]
HashColor(zone) == [entry |-> <<>>, hash |-> zoneHash(zone, 1, 0)]

\* getZoneStyle of the Bubble: the first key the label contains, whatever
\* the case, else the Default entry
getZoneStyle(z) ==
    LET found == {i \in DOMAIN ZoneKeys : Includes(toLowerCase(z), toLowerCase(ZoneKeys[i]))}
    IN  IF found = {} THEN PaletteEntry(<<"D", "e", "f", "a", "u", "l", "t">>)
        ELSE PaletteEntry(ZoneKeys[CHOOSE i \in found : \A j \in found : i <= j])

\* getZoneColorHex of the program editor: the first of its six names the
\* label contains, else the hash colour
getZoneColorHex(zone) ==
    LET names == SubSeq(ZoneKeys, 1, 5) \o <<<<"A", "d", "m", "i", "n">>>>
        found == {i \in DOMAIN names : Includes(zone, names[i])}
    IN  IF found = {} THEN HashColor(zone)
        ELSE PaletteEntry(names[CHOOSE i \in found : \A j \in found : i <= j])

\* getHexColorForZone of the export: zoneColors[zone], else map[zone], else
\* the hash colour
getHexColorForZone(zone) ==
    IF \E i \in DOMAIN ZoneKeys : ZoneKeys[i] = zone THEN PaletteEntry(zone)
    ELSE HashColor(zone)

ZoneLabels ==
    {<<"P", "u", "b", "l", "i", "c">>, <<"P", "u", "b", "l", "i", "c", " ", "Z", "o", "n", "e">>,
      <<"p", "u", "b", "l", "i", "c">>, <<"L", "a", "b">>, <<"A", "d", "m", "i", "n">>}

ColorCall ==
    Return("zoneColor", [live |-> getZoneStyle(call.args), chart |-> getZoneColorHex(call.args),
                         export |-> getHexColorForZone(call.args)])

\* snap of the Bubble and of handleDrop, applied once and applied again to
\* its own result
SnapCall ==
    Return("snap", [once |-> snap(call.args), twice |-> snap(snap(call.args))])

PureCalls ==
    {Pending("getConvexHull", points) : points \in PointLists(MaxHullPoints)}
    \cup {Pending("calculatePolygonArea", points) : points \in PointLists(MaxHullPoints)}
    \cup {Pending("wrapText", [text |-> t, maxWidth |-> w]) : t \in Texts, w \in MaxWidths}
    \cup {Pending("zoneColor", z) : z \in ZoneLabels}
    \cup {Pending("snap", v) : v \in (0 - MaxSnapVal)..MaxSnapVal}

InitPure ==
    /\ call \in PureCalls
    /\ appVersion = 1
    /\ rooms = <<>>
    /\ currentFloor = 0
    /\ scale = ScaleUnit
    /\ offset = InitialOffset
    /\ projectName = "Untitled"
    /\ snapEnabled \in (IF call.fn = "snap" THEN BOOLEAN ELSE {FALSE})
    /\ snapStep \in (IF call.fn = "snap" THEN gridOptions ELSE {10})
    /\ toolMode = "select"
    /\ connectingSourceId = NoId
    /\ selectedRoomIds = {}
    /\ connections = <<>>
    /\ mouse = MouseInit
    /\ exportLog = <<>>
    /\ hist = HistInit
    /\ BubbleInit

NextPure ==
    \/ HullCall
    \/ AreaCall
    \/ WrapCall
    \/ ColorCall
    \/ SnapCall

SpecPure == InitPure /\ [][NextPure]_vars

---------------------------------------------------------------------------
Moved(id) == RoomOf(rooms, id).x # RoomOf(hist.startRooms, id).x
             \/ RoomOf(rooms, id).y # RoomOf(hist.startRooms, id).y

\* C1: with grid snap off and no other space within the snap threshold, a
\* dragged space is, after every mouse-move and after the release, at its
\* gesture-start position plus the total pointer displacement divided by the
\* zoom scale, however many mouse-move events were delivered
C1_DragDeterministic ==
    (hist.kind = "drag" /\ ~snapEnabled /\ ~hist.nearX /\ ~hist.nearY) =>
        LET r  == RoomOf(rooms, hist.id)
            r0 == RoomOf(hist.startRooms, hist.id)
        IN  /\ r.x * scale = r0.x * scale + (hist.curX - hist.downX) * ScaleUnit
            /\ r.y * scale = r0.y * scale + (hist.curY - hist.downY) * ScaleUnit

\* a drag of several mouse-moves at zoom 2.0, released away from every other
\* space with grid snap off
C1_Witness ==
    /\ hist.kind = "drag" /\ hist.released /\ hist.moves = 2
    /\ ~snapEnabled /\ ~hist.nearX /\ ~hist.nearY
    /\ scale = 2 * ScaleUnit
    /\ hist.curX # hist.downX /\ hist.curY # hist.downY
    /\ Moved(hist.id)

\* C6: while a space is dragged and the handler reports an object snap on an
\* axis, one of the left / centre / right positions of the dragged space
\* coincides with a left / centre / right position of another space on the
\* floor, and the reported guide is at that coordinate of the other space
C6_GuideAtMatchedCoordinate ==
    \A id \in RoomIds :
        (isDragging[id] /\ hist.kind = "drag" /\ hist.id = id /\ hist.moves > 0) =>
            LET r == RoomOf(rooms, id)
                lines == activeSnapLines[id]
            IN  /\ lines.x # None =>
                     /\ Parts(r.x, r.width) \cap hist.targetsX # {}
                     /\ lines.x[1] \in Parts(r.x, r.width) \cap hist.targetsX
                /\ lines.y # None =>
                     /\ Parts(r.y, r.height) \cap hist.targetsY # {}
                     /\ lines.y[1] \in Parts(r.y, r.height) \cap hist.targetsY

\* C8: while the primary of a multiple selection is dragged, every selected
\* space is displaced from its gesture-start position by the displacement of
\* the primary
C8_GroupOffsetsPreserved ==
    (hist.kind = "drag" /\ hist.id \in selectedRoomIds) =>
        \A id \in selectedRoomIds :
            /\ RoomOf(rooms, id).x - RoomOf(hist.startRooms, id).x
                 = RoomOf(rooms, hist.id).x - RoomOf(hist.startRooms, hist.id).x
            /\ RoomOf(rooms, id).y - RoomOf(hist.startRooms, id).y
                 = RoomOf(rooms, hist.id).y - RoomOf(hist.startRooms, hist.id).y

\* two selected spaces, the primary dragged in several moves and snapped to
\* another space on the X axis
C8_Witness ==
    /\ hist.kind = "drag" /\ hist.moves = 2 /\ isDragging[hist.id]
    /\ selectedRoomIds = {"B", "C"} /\ hist.id = "B"
    /\ activeSnapLines["B"].x # None
    /\ Moved("B") /\ Moved("C")

---------------------------------------------------------------------------
(* Properties of the resize *)

\* C2: a rectangle resized by an edge handle never has a stored width or
\* height below the minimum of 20 px, whatever the pointer delta and the
\* grid-snap setting
C2_NeverBelowMinimum ==
    hist.kind = "resize" =>
        /\ RoomOf(rooms, hist.id).width >= minSize
        /\ RoomOf(rooms, hist.id).height >= minSize

\* C9: with grid snap off and a proposed size of at least the minimum, after
\* every mouse-move of a resize by the w handle x + width is the gesture-start
\* x + width, and by the n handle y + height is the gesture-start y + height
C9_OppositeEdgeFixed ==
    (hist.kind = "resize" /\ hist.moves > 0 /\ ~hist.released /\ ~snapEnabled) =>
        LET r  == RoomOf(rooms, hist.id)
            r0 == RoomOf(hist.startRooms, hist.id)
            dxWorld == Exact((hist.curX - hist.downX) * ScaleUnit, scale)
            dyWorld == Exact((hist.curY - hist.downY) * ScaleUnit, scale)
        IN  /\ (resizeHandle[hist.id] = "w" /\ r0.width - dxWorld >= minSize) =>
                 r.x + r.width = r0.x + r0.width
            /\ (resizeHandle[hist.id] = "n" /\ r0.height - dyWorld >= minSize) =>
                 r.y + r.height = r0.y + r0.height

---------------------------------------------------------------------------
(* Properties of the outline *)

\* C3: a space with an explicit polygon has a stored width of at least the
\* polygon's extent in x and a stored height of at least its extent in y
C3_PolygonBounded ==
    \A i \in DOMAIN rooms :
        Len(rooms[i].polygon) > 0 =>
            /\ rooms[i].width >= SeqMax(Xs(rooms[i].polygon)) - SeqMin(Xs(rooms[i].polygon))
            /\ rooms[i].height >= SeqMax(Ys(rooms[i].polygon)) - SeqMin(Ys(rooms[i].polygon))

\* C10: once the dblclick event of a double-click on a space has been
\* handled, the space is in outline mode if and only if it was not when the
\* double-click began, and a rectangle that entered outline mode has its four
\* corners as polygon
C10_DoubleClickTogglesOnce ==
    (hist.kind = "toggle" /\ hist.dbl) =>
        LET r  == RoomOf(rooms, hist.id)
            r0 == RoomOf(hist.startRooms, hist.id)
        IN  /\ isEditingOutline[hist.id] = ~hist.outlineAtClick
            /\ (~hist.outlineAtClick /\ Len(r0.polygon) = 0) =>
                    r.polygon = RectPoints(r0.width, r0.height)

---------------------------------------------------------------------------
(* Properties of the connections *)

\* C11: the release of the button ends every gesture: the step that takes the
\* button from held to released leaves isDragging false and resizeHandle,
\* draggingVertexIndex and draggingEdgeIndex null for every space (vertex 0
\* and edge 0 included), and leaves the stored rooms as the last mouse-move
\* wrote them
C11_ReleaseClearsAll ==
    [][(mouse.down /\ ~mouse'.down) =>
          /\ \A id \in RoomIds :
                /\ ~isDragging'[id]
                /\ resizeHandle'[id] = "null"
                /\ draggingVertexIndex'[id] = None
                /\ draggingEdgeIndex'[id] = None
          /\ rooms' = rooms]_vars

\* a drag of vertex 0 that moved the vertex has been released and no gesture
\* state is left
C11_Witness ==
    /\ hist.kind = "vertex"
    /\ hist.released
    /\ hist.moves > 0
    /\ RoomOf(rooms, hist.id).polygon[1] # RoomOf(hist.startRooms, hist.id).polygon[1]
    /\ \A id \in RoomIds : ~Active(id)

\* C4: when a space has just been deleted, by the Delete Room button, by the
\* deletion of its row in the program editor or by deleteRoom, no connection
\* has it as fromId or as toId
C4_DeleteRemovesConnections ==
    \A i \in DOMAIN connections :
        connections[i].fromId \notin hist.deleted /\ connections[i].toId \notin hist.deleted

\* C5: no two connections join the same unordered pair of spaces, and no
\* connection joins a space to itself
C5_NoDuplicateNoSelfLoop ==
    /\ \A i, j \in DOMAIN connections :
          i # j => ~SamePair(connections[i], connections[j].fromId, connections[j].toId)
    /\ \A i \in DOMAIN connections : connections[i].fromId # connections[i].toId

\* two connections are stored, and a connect gesture between two spaces that
\* are connected already has just been completed
C5_Witness ==
    /\ hist.kind = "duplicate"
    /\ Len(connections) = 2
    /\ connectingSourceId = NoId

---------------------------------------------------------------------------
(* Properties of the export *)

\* C7: a geometry export run while no space is placed on the current floor
\* gives the user a notice and no file
C7_EmptyExportRejected ==
    \A i \in DOMAIN exportLog :
        (exportLog[i].format \in GeometryFormats /\ exportLog[i].visibleRooms = 0) =>
            (exportLog[i].notice /\ ~exportLog[i].file)

\* C12: a wheel event leaves the world point under the pointer where it was:
\* the client position of the event converts to the same world point with
\* the scale and offset before the event and with those after it
C12_ZoomAnchoredAtCursor ==
    [][(hist'.wheels = hist.wheels + 1) =>
          /\ screenToWorldAt(mouse'.x, rect.left, offset.x, scale)
               = screenToWorldAt(mouse'.x, rect.left, offset'.x, scale')
          /\ screenToWorldAt(mouse'.y, rect.top, offset.y, scale)
               = screenToWorldAt(mouse'.y, rect.top, offset'.y, scale')]_vars

\* C13: the view scale stays within [0.1, 5.0] whatever wheel events arrive
C13_ScaleWithinBounds == MinScale <= scale /\ scale <= MaxScale

\* two wheel events have been handled and the last one ran into the upper
\* limit
C13_Witness == hist.wheels = 2 /\ scale = MaxScale /\ offset # InitialOffset

\* C14: in every DXF or SVG file of handleExport, the outline of each visible
\* space encloses, by the shoelace formula over the written coordinates, the
\* stored area of the space in square pixels (to within 0.01 m2), and the
\* label of the space shows the stored area
C14_ExportedAreaMatches ==
    \A i \in DOMAIN exportLog : \A k \in DOMAIN exportLog[i].shapes :
        LET shape == exportLog[i].shapes[k]
        IN  /\ Abs(100 * Abs(ShoelaceSum(shape.outline, 1)) - 2 * shape.area * PPM2)
                  <= 2 * PPM2
            /\ shape.label = Some(shape.area)

\* C15: a failed generation (rejected call, missing key, response without
\* text, or JSON that violates the response schema) leaves the rooms, the
\* connections and the project name as they were
C15_FailedGenerationChangesNothing ==
    [][(hist'.ai = "failed") =>
          /\ rooms' = rooms
          /\ connections' = connections
          /\ projectName' = projectName]_vars

\* the points of a list as a set, and whether q lies in the triangle or on
\* the segment spanned by a, b and c (which may coincide)
PointSet(points) == {points[i] : i \in DOMAIN points}
InTriangle(q, a, b, c) ==
    LET d1 == cross(a, b, q)
        d2 == cross(b, c, q)
        d3 == cross(c, a, q)
    IN  /\ ~(d1 < 0 /\ (d2 > 0 \/ d3 > 0))
        /\ ~(d1 > 0 /\ (d2 < 0 \/ d3 < 0))
        /\ ~(d2 < 0 /\ d3 > 0) /\ ~(d2 > 0 /\ d3 < 0)
        /\ (d1 = 0 /\ d2 = 0 /\ d3 = 0) =>
               /\ q.x >= Min2(a.x, Min2(b.x, c.x)) /\ q.x <= Max2(a.x, Max2(b.x, c.x))
               /\ q.y >= Min2(a.y, Min2(b.y, c.y)) /\ q.y <= Max2(a.y, Max2(b.y, c.y))

\* the extreme points of S: those outside the convex hull of the others
ExtremePoints(S) ==
    {q \in S : \A a, b, c \in S \ {q} : ~InTriangle(q, a, b, c)}

AllCollinear(S) == \A a, b, c \in S : cross(a, b, c) = 0

\* C16: for a list of grid points that are not all collinear, getConvexHull
\* returns the extreme points of the list and nothing else (no interior
\* point, no point inside a hull edge), each once, in one rotational order
C16_HullIsExtremePoints ==
    (call.fn = "getConvexHull" /\ call.done /\ ~AllCollinear(PointSet(call.args))) =>
        LET hull == call.result
            n == Len(hull)
        IN  /\ PointSet(hull) = ExtremePoints(PointSet(call.args))
            /\ n = Cardinality(PointSet(hull))
            /\ \A i \in 1..n :
                  cross(hull[i], hull[(i % n) + 1], hull[((i + 1) % n) + 1]) > 0

\* the hull of a list of four points, one of them strictly inside the
\* triangle of the other three, has been taken
C16_Witness ==
    /\ call.fn = "getConvexHull"
    /\ call.done
    /\ call.args = <<Pt(1, 1), Pt(0, 0), Pt(2, 1), Pt(1, 2)>>
    /\ call.result = <<Pt(0, 0), Pt(2, 1), Pt(1, 2)>>

\* C17: the area calculatePolygonArea returns for a vertex list is the one
\* it returns for the reversed list and for every cyclic rotation of the
\* list, is never negative, and is 0 for fewer than 3 points and for points
\* that enclose nothing (all on one line)
C17_AreaWindingIndependent ==
    (call.fn = "calculatePolygonArea" /\ call.done) =>
        LET points == call.args
            n == Len(points)
        IN  /\ call.result = polygonArea([i \in 1..n |-> points[n + 1 - i]])
            /\ \A k \in 1..n :
                  call.result = polygonArea([i \in 1..n |-> points[((i + k - 1) % n) + 1]])
            /\ call.result.n >= 0
            /\ (n < 3 \/ AllCollinear(PointSet(points))) => call.result.n = 0

\* the area of a square of 2 px listed clockwise has been computed: 4 px2,
\* a hundredth of a square metre
C17_Witness ==
    /\ call.fn = "calculatePolygonArea"
    /\ call.done
    /\ call.args = <<Pt(0, 0), Pt(0, 2), Pt(2, 2), Pt(2, 0)>>
    /\ ShoelaceSum(call.args, 1) < 0
    /\ call.result = Frac(1, 100)

\* C18: no line wrapText returns is wider than maxWidth, unless a single
\* character is wider than maxWidth by itself
C18_NoLineExceedsMaxWidth ==
    (call.fn = "wrapText" /\ call.done) =>
        \/ CharWidth > call.args.maxWidth
        \/ \A i \in DOMAIN call.result : measureText(call.result[i]) <= call.args.maxWidth

\* C19: for every zone label, the resolvers of the live view (the Bubble and
\* the program editor) and the resolver of the export select the same
\* palette entry, or all fall back to the same hash colour
C19_SameColourOnScreenAndExport ==
    (call.fn = "zoneColor" /\ call.done) =>
        /\ call.result.live = call.result.export
        /\ call.result.chart = call.result.export

C21_SnapIdempotent ==
    (call.fn = "snap" /\ call.done) =>
        /\ call.result.twice = call.result.once
        /\ snapEnabled => call.result.once % snapPixelUnit = 0
        /\ ~snapEnabled => call.result.once = call.args

\* a coordinate half-way between two grid lines has been snapped up
C21_Witness ==
    /\ call.fn = "snap" /\ call.done /\ snapEnabled /\ snapStep = 5
    /\ call.args = 0 - 15 /\ call.result.once = 0 - 10 /\ call.result.twice = 0 - 10

\* C22: during a resize, a vertex drag or an edge drag of a space, every
\* other space is what it was when the gesture started, also when the space
\* is one of several selected spaces
C22_OtherSpacesUntouched ==
    (hist.kind \in {"resize", "vertex", "edge"} /\ hist.moves > 0) =>
        \A i \in DOMAIN rooms :
            rooms[i].id # hist.id => rooms[i] = RoomOf(hist.startRooms, rooms[i].id)

\* C23: while a vertex or an edge is dragged, the stored space is the one
\* a single mouse-move from the gesture start to the present pointer
\* position gives, whatever moves came between
C23_DragPathIndependent ==
    (/\ hist.kind \in {"vertex", "edge"} /\ hist.moves > 0 /\ ~hist.released
     /\ HasRoom(rooms, hist.id) /\ Active(hist.id)) =>
        LET start == RoomOf(hist.startRooms, hist.id)
            direct == BubbleMove(start, otherRooms(hist.startRooms, currentFloor, hist.id),
                                 [x |-> hist.curX, y |-> hist.curY])
        IN  RoomOf(rooms, hist.id) = Merge(start, direct.updates)

\* C24: for the outline of every space on the canvas, createRoundedPath
\* computes every coordinate without a division by zero, and a corner at a
\* vertex that coincides with a neighbour has radius zero
C24_RoundedPathDefined ==
    \A k \in DOMAIN rooms :
        Rendered(rooms, currentFloor, rooms[k].id) =>
            \A c \in DOMAIN polygonPath(rooms[k]) :
                /\ polygonPath(rooms[k])[c].startRatioSq.d # 0
                /\ polygonPath(rooms[k])[c].endRatioSq.d # 0

\* C25: from a Ctrl + mouse-down on edge i until the release, the polygon
\* is the polygon of the gesture start with two vertices inserted between
\* the endpoints of edge i; the two inserted vertices are the endpoints
\* moved by one common delta with a component that is zero (the one of the
\* smaller pointer displacement), and every other vertex is where it was
C25_ExtrudeMovesInsertedPair ==
    (hist.kind = "edge" /\ hist.ctrl /\ ~hist.released) =>
        LET old == ensurePolygon(RoomOf(hist.startRooms, hist.id))
            cur == RoomOf(rooms, hist.id).polygon
            n == Len(old)
            a == draggingEdgeIndex[hist.id][1]
            s == startDragState[hist.id]
            m == [x |-> hist.curX, y |-> hist.curY]
        IN  /\ Len(cur) = n + 2
            /\ a \in 1..n
            /\ SubSeq(cur, 1, a) \o SubSeq(cur, a + 3, n + 2) = old
            /\ LET dx == cur[a + 1].x - old[a].x
                   dy == cur[a + 1].y - old[a].y
                   q == old[(a % n) + 1]
               IN  /\ cur[a + 2] = Pt(q.x + dx, q.y + dy)
                   /\ dx = 0 \/ dy = 0
                   /\ Abs(dxWorldOf(s, m)) > Abs(dyWorldOf(s, m)) => dy = 0
                   /\ Abs(dxWorldOf(s, m)) < Abs(dyWorldOf(s, m)) => dx = 0

\* the closing edge of the square has been extruded and dragged, the
\* smaller vertical displacement dropped
C25_Witness ==
    /\ hist.kind = "edge" /\ hist.ctrl /\ ~hist.released /\ hist.moves > 0
    /\ draggingEdgeIndex[hist.id] = Some(4)
    /\ hist.curX - hist.downX = 30 /\ hist.curY - hist.downY = 10
    /\ Len(RoomOf(rooms, hist.id).polygon) = 6
    /\ RoomOf(rooms, hist.id).polygon[5] # RoomOf(rooms, hist.id).polygon[4]

\* C26: a physics tick in which no placed space has a force above the
\* epsilon stores the list it was given; any tick changes nothing but x and
\* y of placed spaces
C26_PhysicsFrame ==
    [][(hist'.tick # "none" /\ hist' # hist) =>
          /\ (\A i \in DOMAIN rooms :
                 rooms[i].isPlaced => ~AboveEpsilon(Force(rooms, i, 1)))
                => (hist'.tick = "same" /\ rooms' = rooms)
          /\ hist'.tick = "same" => rooms' = rooms
          /\ Len(rooms') = Len(rooms)
          /\ \A i \in DOMAIN rooms :
                /\ rooms'[i] = [rooms[i] EXCEPT !.x = rooms'[i].x, !.y = rooms'[i].y]
                /\ ~rooms[i].isPlaced => rooms'[i] = rooms[i]]_vars

\* a tick has moved a placed space while an unplaced space that shares the
\* row stayed where it was
C26_Witness ==
    /\ hist.tick = "moved"
    /\ \E i \in DOMAIN rooms : ~rooms[i].isPlaced /\ rooms[i].x = 0
    /\ RoomOf(rooms, "A").x < 0

\* C27: every DXF export, whichever button made it, has exactly one closed
\* LWPOLYLINE for each space placed on the current floor and none for any
\* other space
C27_OnePolylinePerVisibleSpace ==
    [][(exportLog' # exportLog /\ exportLog'[1].format = "dxf" /\ exportLog'[1].file) =>
          LET drawn == exportLog'[1].polylines
              visible == {rooms[i].id : i \in {k \in DOMAIN rooms :
                             rooms[k].isPlaced /\ rooms[k].floor = currentFloor}}
          IN  /\ Len(drawn) = Cardinality(visible)
              /\ {drawn[i] : i \in DOMAIN drawn} = visible]_vars

\* C28: whenever a drag state of a Bubble is set (isDragging, resizeHandle,
\* draggingVertexIndex or draggingEdgeIndex), the pointer button is held
C28_DragOnlyWhileButtonHeld ==
    (\E id \in RoomIds : Active(id)) => mouse.down

\* C29: both ends of every stored connection are spaces of the room list
\* that are placed
C29_ConnectionsReferToPlacedSpaces ==
    \A i \in DOMAIN connections :
        \A end \in {connections[i].fromId, connections[i].toId} :
            HasRoom(rooms, end) /\ RoomOf(rooms, end).isPlaced

---------------------------------------------------------------------------
(* Selection, floors and whole-shape drags of the first App: two spaces on   *)
(* the ground floor and one on the floor above.                             *)

InitFloors ==
    /\ appVersion = 1
    /\ rooms = << Room("A", 40, 0, 40, 40, TRUE, 0),
                  Room("B", 0, 100, 20, 20, TRUE, 0),
                  Room("C", 200, 200, 20, 20, TRUE, 1) >>
    /\ currentFloor = 0
    /\ scale = ScaleUnit
    /\ offset = InitialOffset
    /\ projectName = "Untitled"
    /\ snapEnabled = FALSE
    /\ snapStep = 10
    /\ toolMode = "select"
    /\ connectingSourceId = NoId
    /\ selectedRoomIds = {}
    /\ connections = <<>>
    /\ mouse = MouseInit
    /\ exportLog = <<>>
    /\ hist = HistInit
    /\ BubbleInit
    /\ call = NoCall

NextFloors ==
    \/ (hist.gestures < MaxPresses /\
        \E id \in RoomIds, multi \in BOOLEAN : RootMouseDown(id, 1, multi))
    \/ \E px \in DragXs, py \in DragYs : MouseMove(px, py)
    \/ MouseUp
    \/ \E f \in Floors : SetCurrentFloor(f)
    \/ \E id \in RoomIds, d \in {0 - 1, 1} : onFloorChange(id, d)

SpecFloors == InitFloors /\ [][NextFloors]_vars

\* C30: every space a whole-shape drag has translated is placed on the
\* current floor
C30_DragMovesOnlyCurrentFloor ==
    (hist.kind = "drag" /\ hist.moves > 0) =>
        \A i \in DOMAIN rooms :
            LET before == RoomOf(hist.startRooms, rooms[i].id)
            IN  (rooms[i].x # before.x \/ rooms[i].y # before.y) =>
                    (rooms[i].isPlaced /\ rooms[i].floor = currentFloor)

====
